---- MODULE Spec2Model ----
(***************************************************************************)
(* Model of the agent orchestration engine of e_websearch:                 *)
(*   core/agent/models.py, core/agent/executor.py,                         *)
(*   core/agent/search_agent.py, core/agent/observability.py,              *)
(*   core/agent/tools.py.                                                  *)
(*                                                                         *)
(* The engine runs on one asyncio event loop: a task runs without          *)
(* interruption until it awaits a collaborator (search backend, LLM,       *)
(* planner, sleep).  The positions at which a task is suspended are the    *)
(* members of AwaitPcs; another task or the clock-independent callers      *)
(* (cancel_search) act only while every task is suspended.                 *)
(***************************************************************************)
EXTENDS Integers, Sequences, FiniteSets, TLC

\* ------------------------------------------------------------------ bounds
\* largest value of the wall clock (time.time()) the model follows
MaxTime == 2

\* largest number of create_state calls followed on one StateManager
MaxCreated == 3

\* longest result list handed to DataProcessingTools
MaxLen == 3

\* largest number of DataProcessingTools calls followed on one list
MaxCalls == 2

\* largest number of results of a step handed to evaluate_step_success
MaxResultCount == 6

\* ------------------------------------------------------- enumerations
\* models.py ExecutionStatus
PENDING == "pending"
RUNNING == "running"
COMPLETED == "completed"
FAILED == "failed"
CANCELLED == "cancelled"

ExecutionStatus == {PENDING, RUNNING, COMPLETED, FAILED, CANCELLED}

\* models.py StepType
SEARCH == "search"
ANALYZE == "analyze"
REFINE == "refine"
SUMMARIZE == "summarize"
VALIDATE == "validate"

StepType == {SEARCH, ANALYZE, REFINE, SUMMARIZE, VALIDATE}

\* models.py PlanningStrategy
SIMPLE == "simple"
ITERATIVE == "iterative"
PARALLEL == "parallel"
ADAPTIVE == "adaptive"

\* the members in the order of their definition (iteration order of the Enum)
PlanningStrategy == <<SIMPLE, ITERATIVE, PARALLEL, ADAPTIVE>>

\* the reasons returned by should_continue_execution (the source texts are
\* Chinese; each is rendered here by its English meaning)
\* "执行超时"
ReasonTimeout == "execution timed out"
\* "达到最大迭代次数"
ReasonMaxIterations == "reached max iterations"
\* "已获得足够的结果"
ReasonSufficient == "sufficient results"
\* "遇到严重错误"
ReasonCritical == "critical errors"
\* "继续执行"
ReasonContinue == "continue"

\* the concurrent calls of SearchAgent.search the model follows
Runs == {"r1"}

\* values of uuid.uuid4().hex[:8]
Hex == {"h1"}

\* values of uuid.uuid4().hex[:8] over several calls of create_state
HexStates == {"h1", "h2"}

\* the calls of a second search() running next to the first
TwoRuns == {"r1", "r2"}

\* what uuid4 may return to a call: the value the first call draws is named
\* h1, a second call draws the same value or another one
HexFor(r) == IF r \in Runs THEN Hex ELSE HexStates

\* f"agent_{hex}" (search_agent.py:53) and f"session_{hex}" (executor.py:34):
\* a string is modelled by its prefix and its hex part
AgentId(h) == <<"agent", h>>

SessionId(h) == <<"session", h>>

Ids == {AgentId(h) : h \in Hex} \cup {SessionId(h) : h \in Hex}

NoRun == "none"

\* ------------------------------------------------------- search results
\* core/models.py SearchResult: url, score (tenths), the tokens of
\* "title snippet", whether content and publish_time are set
ResA == [url |-> "a", score |-> 9, words |-> {"chatgpt", "ai"}, content |-> TRUE, publish_time |-> FALSE]

ResA2 == [url |-> "a", score |-> 5, words |-> {"claude"}, content |-> FALSE, publish_time |-> TRUE]

ResB == [url |-> "b", score |-> 7, words |-> {"chatgpt", "claude"}, content |-> FALSE, publish_time |-> FALSE]

\* what the search collaborator may return: response.results, response.cache_hit
Responses ==
  {[results |-> <<>>, cache_hit |-> FALSE],
   [results |-> <<ResA>>, cache_hit |-> TRUE],
   [results |-> <<ResB, ResA2>>, cache_hit |-> FALSE]}

\* tokens of the request query (query.lower().split())
QueryWords == {"chatgpt", "claude"}

\* tokens w with len(w) > 2 and w.isalpha()
IsKeyword(w) == w \in {"chatgpt", "claude"}

\* ------------------------------------------------------------- requests
\* models.py AgentSearchRequest: the fields the executor reads.
\* confidence_threshold is kept in tenths.
MkRequest(mi, tmr, to, obs, er, ct) ==
  [max_iterations |-> mi, total_max_results |-> tmr, timeout |-> to,
   confidence_threshold |-> ct, enable_refinement |-> er,
   enable_tracing |-> obs, enable_performance_monitoring |-> obs]

Requests ==
  {MkRequest(3, 50, 300, TRUE, TRUE, 7), MkRequest(2, 50, 1, TRUE, TRUE, 5),
   MkRequest(3, 2, 0, FALSE, TRUE, 7), MkRequest(1, 50, 300, FALSE, TRUE, 7),
   MkRequest(3, 1, 300, FALSE, FALSE, 7), MkRequest(0, 50, 300, FALSE, TRUE, 7)}

\* --------------------------------------------------------------- plans
\* models.py ExecutionStep
MkStep(t) ==
  [step_type |-> t, status |-> PENDING, results |-> <<>>, error |-> "",
   refined |-> <<>>, summary |-> "", confidence_score |-> 0]

\* the strategy carried by the plans handed to execute_plan
StrategyOf(types) ==
  IF Len(types) = 1 THEN SIMPLE
  ELSE IF \A i \in DOMAIN types : types[i] = SEARCH THEN PARALLEL
  ELSE ITERATIVE

\* models.py ExecutionPlan
MkPlan(types) ==
  [steps |-> [i \in 1..Len(types) |-> MkStep(types[i])], current_step_index |-> 0,
   strategy |-> StrategyOf(types)]

PlanShapes ==
  {<<SEARCH>>, <<SEARCH, SEARCH, ANALYZE>>, <<SEARCH, SEARCH, SEARCH, SEARCH>>,
   <<SEARCH, VALIDATE, REFINE>>, <<SEARCH, SUMMARIZE, SEARCH>>}

Plans == {MkPlan(t) : t \in PlanShapes}

\* what the LLM collaborator may return as summary: None or a text
Summaries == {"", "llm summary"}

\* ------------------------------------------------------------ variables
VARIABLES
  pc,          \* position of each call of SearchAgent.search
  req,         \* the AgentSearchRequest of each call
  sid,         \* search(): session_id = f"agent_{...}"
  plan,        \* the ExecutionPlan of each call
  idx,         \* execute_plan: step_index of the for loop
  st,          \* the ExecutionState object created by each call
  states,      \* StateManager.states: session id -> ExecutionState object
  traces,      \* ExecutionTracer.traces: session id -> event types
  metrics,     \* PerformanceMonitor.session_metrics: its keys
  final,       \* search(): final_results of _process_final_results
  resp,        \* the AgentSearchResponse of each call
  now,         \* time.time()
  llm,         \* llm_enhancer is set and is_available()
  pl,          \* the SearchPlanner: its configuration, the request, what its calls returned
  fn,          \* DataProcessingTools / ConditionEvaluator called on their own: arguments, returned value
  cancelledMid, \* history: cancel_search hit the call's state while a plan step was in flight
  stopReason   \* history: the reason of the should_continue_execution check that stopped the loop

vars == <<pc, req, sid, plan, idx, st, states, traces, metrics, final, resp, now, llm, pl, fn, cancelledMid, stopReason>>

\* the variables of the executor and of SearchAgent.search
execVars == <<pc, req, sid, plan, idx, st, states, traces, metrics, final, resp, now, llm, cancelledMid, stopReason>>

\* the positions at which a task is suspended in an await
AwaitPcs == {"idle", "planning", "step_io", "fin_io", "quality_io", "cleanup_sleep", "done"}

AllSuspended == \A o \in DOMAIN pc : pc[o] \in AwaitPcs

OthersSuspended(r) == \A o \in DOMAIN pc \ {r} : pc[o] \in AwaitPcs

\* ------------------------------------------------------ pure functions
Min(a, b) == IF a <= b THEN a ELSE b

Max(a, b) == IF a >= b THEN a ELSE b

\* f[k] := v, adding k to the domain when it is new (dict assignment)
Put(f, k, v) == [x \in DOMAIN f \cup {k} |-> IF x = k THEN v ELSE f[x]]

\* del f[k]
Del(f, k) == [x \in DOMAIN f \ {k} |-> f[x]]

\* s[:n]
Take(s, n) == SubSeq(s, 1, Min(n, Len(s)))

\* the elements of s whose index is in keep, in order
RECURSIVE SelectIdx(_, _)
SelectIdx(s, keep) ==
  IF s = <<>> THEN <<>>
  ELSE (IF Len(s) \in keep THEN SelectIdx(SubSeq(s, 1, Len(s) - 1), keep) \o <<s[Len(s)]>>
        ELSE SelectIdx(SubSeq(s, 1, Len(s) - 1), keep))

\* ConditionEvaluator._is_timeout
is_timeout(s, rq, t) ==
  IF rq.timeout <= 0 THEN FALSE ELSE (t - s.start_time) > rq.timeout

\* the count of _reached_max_iterations taking every finished step
completed_steps_and_failed(p) ==
  Cardinality({i \in DOMAIN p.steps : p.steps[i].status \in {COMPLETED, FAILED}})

\* the number of plan steps with status COMPLETED
completed_steps(p) ==
  Cardinality({i \in DOMAIN p.steps : p.steps[i].status = COMPLETED})

\* _reached_max_iterations with > for >=
reached_max_iterations_gt(p, rq) == completed_steps(p) > rq.max_iterations

\* ConditionEvaluator._reached_max_iterations
reached_max_iterations(p, rq) == completed_steps(p) >= rq.max_iterations

\* _has_sufficient_results with > for >=
has_sufficient_results_gt(s, rq) == Len(s.all_results) > rq.total_max_results

\* ConditionEvaluator._has_sufficient_results
has_sufficient_results(s, rq) == Len(s.all_results) >= rq.total_max_results

\* ConditionEvaluator._has_critical_errors: state.plan.steps[-3:]
has_critical_errors(p) ==
  LET n == Len(p.steps)
      lastThree == Max(1, n - 2)..n
  IN Cardinality({i \in lastThree : p.steps[i].status = FAILED}) >= 2

\* ConditionEvaluator.should_continue_execution
should_continue_execution(s, p, rq, t) ==
  IF is_timeout(s, rq, t) THEN <<FALSE, ReasonTimeout>>
  ELSE IF reached_max_iterations(p, rq) THEN <<FALSE, ReasonMaxIterations>>
  ELSE IF has_sufficient_results(s, rq) THEN <<FALSE, ReasonSufficient>>
  ELSE IF has_critical_errors(p) THEN <<FALSE, ReasonCritical>>
  ELSE <<TRUE, ReasonContinue>>

\* ConditionEvaluator.should_refine_query; confidence_score is in
\* hundredths, confidence_threshold in tenths
should_refine_query(step, rq) ==
  IF ~rq.enable_refinement THEN <<FALSE, "refinement disabled">>
  ELSE IF Len(step.results) < 3 THEN <<TRUE, "too few results">>
  ELSE IF step.confidence_score < rq.confidence_threshold * 10
  THEN <<TRUE, "confidence too low">>
  ELSE <<FALSE, "no refinement needed">>

\* evaluate_step_success counting only a score from 0.7 as success
evaluate_step_success_strict(step) ==
  IF step.status = FAILED
  THEN [success |-> FALSE, score |-> 0,
        message |-> IF step.error # "" THEN step.error ELSE "step failed"]
  ELSE IF step.status # COMPLETED
  THEN [success |-> FALSE, score |-> 0, message |-> "step not completed"]
  ELSE IF Len(step.results) = 0
  THEN [success |-> FALSE, score |-> 0, message |-> "no results found"]
  ELSE LET by_count == Min(Len(step.results) * 200, 1000)
           success_score == IF step.confidence_score > 0
                            THEN by_count + step.confidence_score * 10
                            ELSE 2 * by_count
       IN IF success_score >= 1400
          THEN [success |-> TRUE, score |-> success_score, message |-> "step succeeded"]
          ELSE [success |-> FALSE, score |-> success_score, message |-> "step ineffective"]

\* ConditionEvaluator.evaluate_step_success: (success, score, message); the
\* score is kept in units of 1/2000 (confidence_score is in hundredths), so
\* 0.7 is 1400 and 0.4 is 800
evaluate_step_success(step) ==
  IF step.status = FAILED
  THEN [success |-> FALSE, score |-> 0,
        message |-> IF step.error # "" THEN step.error ELSE "step failed"]
  ELSE IF step.status # COMPLETED
  THEN [success |-> FALSE, score |-> 0, message |-> "step not completed"]
  ELSE IF Len(step.results) = 0
  THEN [success |-> FALSE, score |-> 0, message |-> "no results found"]
  ELSE LET by_count == Min(Len(step.results) * 200, 1000)
           success_score == IF step.confidence_score > 0
                            THEN by_count + step.confidence_score * 10
                            ELSE 2 * by_count
       IN IF success_score >= 1400
          THEN [success |-> TRUE, score |-> success_score, message |-> "step succeeded"]
          ELSE IF success_score >= 800
          THEN [success |-> TRUE, score |-> success_score, message |-> "step partly succeeded"]
          ELSE [success |-> FALSE, score |-> success_score, message |-> "step ineffective"]

\* _calculate_relevance compared with > for >=
relevance_above(res, threshold10) ==
  LET overlap == Cardinality(QueryWords \cap res.words)
      total_words == Cardinality(QueryWords)
  IN IF total_words = 0 THEN 0 > threshold10
     ELSE overlap * 10 > threshold10 * total_words

\* ExecutionEngine._calculate_relevance, compared with the threshold:
\* overlap / total_words >= confidence_threshold (tenths)
relevance_at_least(res, threshold10) ==
  LET overlap == Cardinality(QueryWords \cap res.words)
      total_words == Cardinality(QueryWords)
  IN IF total_words = 0 THEN 0 >= threshold10
     ELSE overlap * 10 >= threshold10 * total_words

\* ExecutionEngine._calculate_step_confidence, in hundredths; it runs before
\* step.complete() sets execution_time, so the duration bonus never applies
calculate_step_confidence(step) ==
  LET count == Len(step.results)
      byCount == IF count > 0 THEN Min(count * 10, 30) ELSE 0
      byType == IF step.step_type = SEARCH THEN 10
                ELSE IF step.step_type = ANALYZE THEN 20 ELSE 0
  IN Min(Max(50 + byCount + byType, 0), 100)

\* ExecutionStep.complete without self.status = COMPLETED
step_complete_no_status(step) ==
  [step EXCEPT !.confidence_score = calculate_step_confidence(step)]

\* ExecutionStep.complete as called by execute_step
step_complete(step) ==
  [step EXCEPT !.status = COMPLETED,
               !.confidence_score = calculate_step_confidence(step)]

\* ExecutionStep.fail without self.error = error
step_fail_no_error(step, msg) == [step EXCEPT !.status = FAILED]

\* ExecutionStep.fail
step_fail(step, msg) == [step EXCEPT !.status = FAILED, !.error = msg]

\* add_results inserting the new results in front
add_results_front(s, results) ==
  [s EXCEPT !.all_results = results \o @,
            !.total_results_found = @ + Len(results)]

\* ExecutionState.add_results
add_results(s, results) ==
  [s EXCEPT !.all_results = @ \o results,
            !.total_results_found = @ + Len(results)]

\* ExecutionState.add_error
add_error(s, msg) == [s EXCEPT !.errors = Append(@, msg)]

\* ExecutionState.complete without self.status = COMPLETED
state_complete_keeps_status(s) == s

\* ExecutionState.complete
state_complete(s) == [s EXCEPT !.status = COMPLETED]

\* ExecutionState.fail without self.status = FAILED
state_fail_no_status(s, msg) == add_error(s, msg)

\* ExecutionState.fail
state_fail(s, msg) == add_error([s EXCEPT !.status = FAILED], msg)

\* the first occurrence of every url, in order (seen_urls loop)
RECURSIVE deduplicate_by_url(_)
deduplicate_by_url(s) ==
  IF s = <<>> THEN <<>>
  ELSE LET front == deduplicate_by_url(SubSeq(s, 1, Len(s) - 1))
           last == s[Len(s)]
       IN IF \E i \in DOMAIN front : front[i].url = last.url
          THEN front ELSE Append(front, last)

\* list.sort(key, reverse=True) / sorted(..., reverse=True) on <<key, item>>
\* pairs: descending, stable
RECURSIVE insert_desc(_, _)
insert_desc(p, s) ==
  IF s = <<>> THEN <<p>>
  ELSE IF Head(s)[1] >= p[1] THEN <<Head(s)>> \o insert_desc(p, Tail(s))
  ELSE <<p>> \o s

RECURSIVE sort_desc(_)
sort_desc(s) ==
  IF s = <<>> THEN <<>>
  ELSE insert_desc(s[Len(s)], sort_desc(SubSeq(s, 1, Len(s) - 1)))

\* LoopExecutor._deduplicate_and_sort_results
deduplicate_and_sort_results(results) ==
  LET unique == deduplicate_by_url(results)
      sorted == sort_desc([i \in DOMAIN unique |-> <<unique[i].score, unique[i]>>])
  IN [i \in DOMAIN sorted |-> sorted[i][2]]

\* _finalize_execution without the truncation to total_max_results
finalize_results_no_truncate(s, rq) ==
  [s EXCEPT !.all_results = deduplicate_and_sort_results(s.all_results)]

\* the tail of LoopExecutor._finalize_execution: deduplicate, sort, truncate
finalize_results(s, rq) ==
  LET sorted == deduplicate_and_sort_results(s.all_results)
  IN [s EXCEPT !.all_results =
        IF Len(sorted) > rq.total_max_results
        THEN Take(sorted, rq.total_max_results) ELSE sorted]

\* DataProcessingTools._rank_by_hybrid: the score, scaled by 100 * |query words|
hybrid_score(res) ==
  LET q == Cardinality(QueryWords)
      content_score == IF res.content THEN 20 ELSE 10
      freshness_score == IF res.publish_time THEN 10 ELSE 8
      overlap == Cardinality(QueryWords \cap res.words)
  IN IF q = 0 THEN 4 * res.score + content_score + freshness_score
     ELSE q * (4 * res.score + content_score + freshness_score) + 30 * overlap

\* SearchAgent._process_final_results: deduplicate by url, rank (hybrid),
\* filter score >= 0.1, truncate
process_final_results(s, rq) ==
  LET unique == deduplicate_by_url(s.all_results)
      ranked == sort_desc([i \in DOMAIN unique |-> <<hybrid_score(unique[i]), unique[i]>>])
      rankedRes == [i \in DOMAIN ranked |-> ranked[i][2]]
      filtered == SelectIdx(rankedRes, {i \in DOMAIN rankedRes : rankedRes[i].score >= 1})
  IN Take(filtered, rq.total_max_results)

\* ------------------------------------------------- DataProcessingTools
\* SearchResult as the tools read it: url, title, score (tenths), text = the
\* tokens of (content or snippet or ""), words = the tokens of
\* "title snippet" in lower case, whether content and publish_time are set
ToolA ==
  [url |-> "a", title |-> "Foo", text |-> {"t1", "t2", "t3", "t4", "t5", "t6"}, score |-> 9,
   words |-> {"foo", "chatgpt"}, content |-> TRUE, publish_time |-> FALSE]

ToolB ==
  [url |-> "b", title |-> "foo ", text |-> {"t1", "t2", "t3", "t4", "t5"}, score |-> 9,
   words |-> {"foo", "chatgpt"}, content |-> TRUE, publish_time |-> FALSE]

ToolC ==
  [url |-> "a", title |-> "bar", text |-> {"t1", "t2", "t3", "t4", "t5", "t7"}, score |-> 5,
   words |-> {"bar", "chatgpt", "claude"}, content |-> TRUE, publish_time |-> TRUE]

ToolD ==
  [url |-> "c", title |-> "bar", text |-> {}, score |-> 7,
   words |-> {"bar"}, content |-> FALSE, publish_time |-> FALSE]

ToolResults == {ToolA, ToolB, ToolC, ToolD}

\* the result lists handed to the tools
ToolInputs == UNION {[1..n -> ToolResults] : n \in 0..MaxLen}

\* result.title.lower().strip()
title_normalized(t) == IF t \in {"Foo", "foo "} THEN "foo" ELSE t

\* DataProcessingTools._calculate_text_similarity(text1, text2) > 0.8
\* (intersection / union of the token sets, 0.0 when a text has no token)
similarity_above_threshold(t1, t2) ==
  IF t1 = {} \/ t2 = {} THEN FALSE
  ELSE 5 * Cardinality(t1 \cap t2) > 4 * Cardinality(t1 \cup t2)

\* DataProcessingTools._deduplicate_by_title
RECURSIVE deduplicate_by_title(_)
deduplicate_by_title(s) ==
  IF s = <<>> THEN <<>>
  ELSE LET unique == deduplicate_by_title(SubSeq(s, 1, Len(s) - 1))
           result == s[Len(s)]
       IN IF \E i \in DOMAIN unique :
               title_normalized(unique[i].title) = title_normalized(result.title)
          THEN unique ELSE Append(unique, result)

RECURSIVE deduplicate_by_content(_)
\* _deduplicate_by_content comparing with every earlier result, kept or not
deduplicate_by_content_any_earlier(s) ==
  IF s = <<>> THEN <<>>
  ELSE LET unique == deduplicate_by_content(SubSeq(s, 1, Len(s) - 1))
           result == s[Len(s)]
       IN IF \E i \in 1..(Len(s) - 1) : similarity_above_threshold(result.text, s[i].text)
          THEN unique ELSE Append(unique, result)

\* DataProcessingTools._deduplicate_by_content
deduplicate_by_content(s) ==
  IF s = <<>> THEN <<>>
  ELSE LET unique == deduplicate_by_content(SubSeq(s, 1, Len(s) - 1))
           result == s[Len(s)]
       IN IF \E i \in DOMAIN unique : similarity_above_threshold(result.text, unique[i].text)
          THEN unique ELSE Append(unique, result)

\* DataProcessingTools.deduplicate_results (_deduplicate_by_url is the
\* seen_urls loop above)
deduplicate_results(results, method) ==
  IF method = "url" THEN deduplicate_by_url(results)
  ELSE IF method = "content" THEN deduplicate_by_content(results)
  ELSE IF method = "title" THEN deduplicate_by_title(results)
  ELSE results

\* sorted(results, key=key, reverse=True), the keys given as a sequence
sorted_desc(results, keys) ==
  LET sorted == sort_desc([i \in DOMAIN results |-> <<keys[i], results[i]>>])
  IN [i \in DOMAIN sorted |-> sorted[i][2]]

\* s[::-1]
Reverse(s) == [i \in DOMAIN s |-> s[Len(s) + 1 - i]]

\* _rank_by_hybrid with a sort that puts later results first among equal keys
rank_by_hybrid_ties_reversed(results) ==
  sorted_desc(Reverse(results), [i \in DOMAIN results |-> hybrid_score(Reverse(results)[i])])

\* DataProcessingTools._rank_by_hybrid for the query with tokens QueryWords
rank_by_hybrid(results) ==
  sorted_desc(results, [i \in DOMAIN results |-> hybrid_score(results[i])])

\* DataProcessingTools._rank_by_relevance: the key is overlap / |query words|
rank_by_relevance(results) ==
  sorted_desc(results, [i \in DOMAIN results |->
                          IF QueryWords = {} \/ results[i].words = {} THEN 0
                          ELSE Cardinality(QueryWords \cap results[i].words)])

\* DataProcessingTools._rank_by_freshness
rank_by_freshness(results) ==
  sorted_desc(results, [i \in DOMAIN results |-> IF results[i].publish_time THEN 1 ELSE 0])

\* DataProcessingTools.rank_results
rank_results(results, ranking_method) ==
  IF ranking_method = "score"
  THEN sorted_desc(results, [i \in DOMAIN results |-> results[i].score])
  ELSE IF ranking_method = "relevance" THEN rank_by_relevance(results)
  ELSE IF ranking_method = "freshness" THEN rank_by_freshness(results)
  ELSE IF ranking_method = "hybrid" THEN rank_by_hybrid(results)
  ELSE results

\* ------------------------------------------------ SearchAgent scoring
\* values of SearchResult.score (tenths) as a search backend may set them
ScoreValues == {0 - 5, 0, 9, 15}

\* the names of result.source
SourceNames == {"zai", "bing", "wechat", "zhihu", "private"}

\* SearchAgent._calculate_relevance_score for a query with the tokens
\* query_words: the fraction <<numerator, denominator>>
calculate_relevance_score(res, query_words) ==
  IF query_words = {} \/ res.words = {} THEN <<0, 1>>
  ELSE <<Cardinality(query_words \cap res.words), Cardinality(query_words)>>

\* source_reliability.get(source_name, 0.5), in thousandths
source_reliability(source_name) ==
  IF source_name = "zai" THEN 900
  ELSE IF source_name = "bing" THEN 800
  ELSE IF source_name = "wechat" THEN 700
  ELSE IF source_name = "zhihu" THEN 600 ELSE 500

\* SearchAgent._calculate_confidence_score, in thousandths
calculate_confidence_score(res, source_name) ==
  LET content_completeness == IF res.content THEN 1000 ELSE 500
      confidence == (res.score * 100 * 5 + source_reliability(source_name) * 3
                     + content_completeness * 2) \div 10
  IN Min(Max(confidence, 0), 1000)

\* the error texts: execute_step, execute_plan, search
StepErrorMsg == "step execution failed"
PlanErrorMsg == "plan execution failed"
SearchErrorMsg == "agent search failed"

\* StateManager.create_state: the new ExecutionState
MkState(id, t) ==
  [session_id |-> id, status |-> PENDING, start_time |-> t,
   all_results |-> <<>>, final_summary |-> "",
   total_searches |-> 0, total_results_found |-> 0, cache_hits |-> 0,
   errors |-> <<>>]

\* tracer.trace_decision / end_session: nothing when the session has no trace
Trace(tr, id, kind) == IF id \in DOMAIN tr THEN Put(tr, id, Append(tr[id], kind)) ELSE tr


\* ---------------------------------------------------------------- planner
\* a query string is kept as the sequence of its whitespace-separated tokens
\* (query.split()) and the names of the QueryAnalyzer.patterns that match it
\* "ChatGPT vs Claude 对比分析"
QCompare == [words |-> <<"ChatGPT", "vs", "Claude", "compare-analysis">>, patterns |-> {"comparison"}]

\* "什么是区块链"
QDefine == [words |-> <<"what-is-blockchain">>, patterns |-> {"definition"}]

\* a long how-to query that also asks for detail
QTutorial ==
  [words |-> <<"how-to", "learn", "python", "machine", "learning", "in-depth">>,
   patterns |-> {"tutorial", "deep_dive"}]

\* a query asking for the latest news
QLatest == [words |-> <<"latest", "ai", "trends">>, patterns |-> {"latest"}]

QPlain == [words |-> <<"blockchain">>, patterns |-> {}]

\* the empty string
QEmpty == [words |-> <<>>, patterns |-> {}]

Queries == {QCompare, QDefine, QTutorial, QLatest, QPlain, QEmpty}

\* AgentSearchRequest as the planner reads it
PlanRequests ==
  {[query |-> q, planning_strategy |-> ps, sources |-> {"zai"}, max_results_per_iteration |-> 10] :
     q \in Queries, ps \in {SIMPLE, ITERATIVE, PARALLEL, ADAPTIVE}}

\* str.lower() on a token
Lower(w) ==
  IF w = "ChatGPT" THEN "chatgpt" ELSE IF w = "Claude" THEN "claude" ELSE w

\* the keys of QueryAnalyzer.patterns in their order
QueryPatterns == <<"comparison", "tutorial", "definition", "latest", "deep_dive", "multi_aspect">>

\* QueryAnalyzer._classify_query_type: the first pattern that matches
classify_query_type(q) ==
  LET M == {i \in DOMAIN QueryPatterns : QueryPatterns[i] \in q.patterns}
  IN IF M = {} THEN "general"
     ELSE QueryPatterns[CHOOSE i \in M : \A k \in M : i <= k]

\* QueryAnalyzer._assess_complexity
assess_complexity(q) ==
  IF Len(q.words) <= 2 THEN "simple"
  ELSE IF Len(q.words) <= 5 THEN "medium" ELSE "complex"

\* QueryAnalyzer._needs_multiple_searches
needs_multiple_searches(q) ==
  \/ assess_complexity(q) \in {"medium", "complex"}
  \/ classify_query_type(q) \in {"comparison", "deep_dive", "multi_aspect"}

\* QueryAnalyzer._suggest_refinements: f"{query} <suffix>"
suggest_refinements(q) ==
  LET t == classify_query_type(q)
  IN IF t = "comparison"
     THEN <<q.words \o <<"pros-cons">>, q.words \o <<"detailed-compare">>, q.words \o <<"advice">>>>
     ELSE IF t = "tutorial"
     THEN <<q.words \o <<"detailed-steps">>, q.words \o <<"examples">>, q.words \o <<"cautions">>>>
     ELSE IF t = "latest"
     THEN <<q.words \o <<"2024">>, q.words \o <<"latest-progress">>, q.words \o <<"trend-analysis">>>>
     ELSE <<>>

\* QueryAnalyzer.analyze_query: the dict it returns (the keys an LLM adds are
\* read by nobody). confidence is the class of the mean of confidence_scores,
\* "none" when there are no scores.
analyze_query(q) ==
  [is_object |-> FALSE, query_type |-> classify_query_type(q),
   complexity |-> assess_complexity(q),
   requires_multiple_searches |-> needs_multiple_searches(q),
   suggested_refinements |-> suggest_refinements(q), confidence |-> "none"]

QueryTypes ==
  {"comparison", "tutorial", "definition", "latest", "deep_dive", "multi_aspect", "general"}

Complexities == {"simple", "medium", "complex"}

\* the analyses a caller or an advanced analyzer may hand over: a dict
\* (is_object false) or a QueryAnalysisResult
Analyses ==
  {[is_object |-> k[1], query_type |-> t, complexity |-> c,
    requires_multiple_searches |-> m, suggested_refinements |-> k[3], confidence |-> k[2]] :
     t \in QueryTypes, c \in Complexities, m \in BOOLEAN,
     k \in {<<FALSE, "none", <<>>>>, <<FALSE, "none", <<<<"refined", "query">>>>>>,
            <<TRUE, "high", <<<<"refined", "query">>>>>>, <<TRUE, "low", <<>>>>,
            <<TRUE, "mid", <<>>>>, <<TRUE, "none", <<>>>>}}

\* the mean of confidence_scores, in thousandths, of each class
MeanConfidence(c) == IF c = "high" THEN 900 ELSE IF c = "mid" THEN 600 ELSE 300

\* values of uuid.uuid4().hex[:8] for up to three consecutive calls; two
\* calls may return the same value
IdSeqs == {<<"a", "b", "c">>, <<"a", "a", "b">>, <<"a", "b", "a">>, <<"b", "a", "a">>}

\* models.py ExecutionStep as the planner creates it; step_id is the pair of
\* its prefix and its hex part
PlannedStep(prefix, h, t, q, srcs, mr) ==
  [step_id |-> <<prefix, h>>, step_type |-> t, query |-> q, sources |-> srcs,
   max_results |-> mr, status |-> PENDING]

\* TaskDecomposer._create_simple_search_step
create_simple_search_step(rq, h) ==
  PlannedStep("step", h, SEARCH, rq.query.words, rq.sources, rq.max_results_per_iteration)

\* TaskDecomposer._create_comparison_steps
create_comparison_steps(rq, ids) ==
  <<PlannedStep("step", ids[1], SEARCH, rq.query.words, rq.sources, rq.max_results_per_iteration),
    PlannedStep("step", ids[2], SEARCH, rq.query.words \o <<"detailed-compare", "pros-cons">>,
                rq.sources, rq.max_results_per_iteration),
    PlannedStep("step", ids[3], ANALYZE, rq.query.words, {}, 0)>>

\* TaskDecomposer._create_deep_dive_steps
create_deep_dive_steps(rq, ids) ==
  <<PlannedStep("step", ids[1], SEARCH, rq.query.words, rq.sources, rq.max_results_per_iteration),
    PlannedStep("step", ids[2], SEARCH, rq.query.words \o <<"detailed-intro", "in-depth-analysis">>,
                rq.sources, rq.max_results_per_iteration),
    PlannedStep("step", ids[3], SEARCH, rq.query.words \o <<"use-cases", "in-practice">>,
                rq.sources, rq.max_results_per_iteration)>>

\* TaskDecomposer._create_tutorial_steps
create_tutorial_steps(rq, ids) ==
  <<PlannedStep("step", ids[1], SEARCH, rq.query.words, rq.sources, rq.max_results_per_iteration),
    PlannedStep("step", ids[2], SEARCH, rq.query.words \o <<"detailed-steps", "concrete-method">>,
                rq.sources, rq.max_results_per_iteration),
    PlannedStep("step", ids[3], SEARCH, rq.query.words \o <<"cautions", "common-problems">>,
                rq.sources, rq.max_results_per_iteration)>>

\* TaskDecomposer._create_general_multi_steps
create_general_multi_steps(rq, an, ids) ==
  <<PlannedStep("step", ids[1], SEARCH, rq.query.words, rq.sources, rq.max_results_per_iteration)>>
  \o (IF an.suggested_refinements # <<>>
      THEN <<PlannedStep("step", ids[2], SEARCH, an.suggested_refinements[1],
                         rq.sources, rq.max_results_per_iteration)>>
      ELSE <<>>)

\* TaskDecomposer._create_multi_step_plan
create_multi_step_plan(rq, an, ids) ==
  IF an.query_type = "comparison" THEN create_comparison_steps(rq, ids)
  ELSE IF an.query_type = "deep_dive" THEN create_deep_dive_steps(rq, ids)
  ELSE IF an.query_type = "tutorial" THEN create_tutorial_steps(rq, ids)
  ELSE create_general_multi_steps(rq, an, ids)

\* decompose_task lines 209-232: the steps before the emptiness check; with
\* use_dynamic_generation the generator call is commented out (pass)
decomposed_steps(rq, an, dyn, ids) ==
  IF ~an.requires_multiple_searches
  THEN (IF dyn THEN <<>> ELSE <<create_simple_search_step(rq, ids[1])>>)
  ELSE (IF dyn THEN <<>> ELSE create_multi_step_plan(rq, an, ids))

\* decompose_task without the default step for an empty result
decompose_task_no_default(rq, an, dyn, ids, malformed) ==
  IF malformed THEN <<create_simple_search_step(rq, ids[1])>>
  ELSE decomposed_steps(rq, an, dyn, ids)

\* TaskDecomposer.decompose_task; malformed: _normalize_analysis_result
\* raises on the analysis it was given
decompose_task(rq, an, dyn, ids, malformed) ==
  IF malformed THEN <<create_simple_search_step(rq, ids[1])>>
  ELSE IF decomposed_steps(rq, an, dyn, ids) = <<>>
  THEN <<create_simple_search_step(rq, ids[1])>>
  ELSE decomposed_steps(rq, an, dyn, ids)

\* StrategyGenerator.strategy_weights, in tenths
StrategyWeights ==
  [simple |-> [simple |-> 8, medium |-> 3, complex |-> 1, general |-> 7,
               definition |-> 8, tutorial |-> 6, comparison |-> 2, deep_dive |-> 1],
   iterative |-> [simple |-> 1, medium |-> 6, complex |-> 7, general |-> 2,
                  definition |-> 1, tutorial |-> 7, comparison |-> 8, deep_dive |-> 9],
   parallel |-> [simple |-> 1, medium |-> 1, complex |-> 2, general |-> 1,
                 definition |-> 1, tutorial |-> 1, comparison |-> 0, deep_dive |-> 0]]

\* weights.get(key, 0.0)
strategy_weight(s, key) ==
  IF key \in DOMAIN StrategyWeights[s] THEN StrategyWeights[s][key] ELSE 0

\* _select_adaptive_strategy lines 521-552: the score of one strategy, in
\* thousandths
strategy_score(s, complexity, query_type, needs_multiple, confidence) ==
  strategy_weight(s, complexity) * 40
  + strategy_weight(s, query_type) * 30
  + (IF needs_multiple THEN (IF s = SIMPLE THEN 0 - 200 ELSE 200)
     ELSE (IF s = SIMPLE THEN 100 ELSE 0))
  + (IF confidence = "high" /\ s = SIMPLE THEN 100
     ELSE IF confidence = "low" /\ s = ITERATIVE THEN 100 ELSE 0)

\* StrategyGenerator._select_adaptive_strategy: the first strategy, in the
\* order of the Enum without ADAPTIVE, with the highest score
select_adaptive_strategy(complexity, query_type, needs_multiple, confidence) ==
  LET C == {i \in DOMAIN PlanningStrategy : PlanningStrategy[i] # ADAPTIVE}
      sc(i) == strategy_score(PlanningStrategy[i], complexity, query_type,
                              needs_multiple, confidence)
      best == CHOOSE i \in C :
                /\ \A k \in C : sc(k) <= sc(i)
                /\ \A k \in C : sc(k) = sc(i) => i <= k
  IN PlanningStrategy[best]

\* generate_strategy returning request.planning_strategy in every case
generate_strategy_passthrough(rq, an) == rq.planning_strategy

\* StrategyGenerator.generate_strategy
generate_strategy(rq, an) ==
  IF rq.planning_strategy # ADAPTIVE THEN rq.planning_strategy
  ELSE select_adaptive_strategy(an.complexity, an.query_type,
                                an.requires_multiple_searches, an.confidence)

\* _validate_plan accepting every step list
validate_plan_skip(steps) == TRUE

\* SearchPlanner._validate_plan: TRUE when it returns, FALSE when it raises
validate_plan(steps) ==
  /\ steps # <<>>
  /\ \A i, j \in DOMAIN steps : i # j => steps[i].step_id # steps[j].step_id
  /\ \A i \in DOMAIN steps : ~(steps[i].query = <<>> /\ steps[i].step_type = SEARCH)

\* _calculate_plan_confidence raises (division by zero) for an analysis
\* object whose confidence_scores is empty
plan_confidence_raises(an) == an.is_object /\ an.confidence = "none"

\* _calculate_plan_confidence returning base_confidence as computed
calculate_plan_confidence_unclamped(atype, an, steps) ==
  LET base0 == IF atype = "advanced" THEN 800
               ELSE IF atype \in {"bert", "llm"} THEN 750 ELSE 700
      base1 == base0 + (IF an.complexity = "simple" THEN 150
                        ELSE IF an.complexity = "medium" THEN 50
                        ELSE IF an.complexity = "complex" THEN 0 - 100 ELSE 0)
      n == Len(steps)
      base2 == base1 + (IF n = 1 THEN 100 ELSE IF n = 2 THEN 50
                        ELSE IF n > 4 THEN 0 - 150 ELSE 0)
      base3 == IF an.is_object THEN (base2 + MeanConfidence(an.confidence)) \div 2 ELSE base2
      types == {steps[i].step_type : i \in DOMAIN steps}
  IN IF Cardinality(types) > 1 THEN base3 + 50 ELSE base3

\* SearchPlanner._calculate_plan_confidence, in thousandths
calculate_plan_confidence(atype, an, steps) ==
  LET base0 == IF atype = "advanced" THEN 800
               ELSE IF atype \in {"bert", "llm"} THEN 750 ELSE 700
      base1 == base0 + (IF an.complexity = "simple" THEN 150
                        ELSE IF an.complexity = "medium" THEN 50
                        ELSE IF an.complexity = "complex" THEN 0 - 100 ELSE 0)
      n == Len(steps)
      base2 == base1 + (IF n = 1 THEN 100 ELSE IF n = 2 THEN 50
                        ELSE IF n > 4 THEN 0 - 150 ELSE 0)
      base3 == IF an.is_object THEN (base2 + MeanConfidence(an.confidence)) \div 2 ELSE base2
      types == {steps[i].step_type : i \in DOMAIN steps}
      base4 == IF Cardinality(types) > 1 THEN base3 + 50 ELSE base3
  IN Min(Max(base4, 0), 1000)

\* models.py ExecutionPlan as the planner creates it (plan_id, a uuid of its
\* own that nothing reads, is left out)
PlannedPlan(rq, strategy, steps, confidence) ==
  [original_query |-> rq.query.words, strategy |-> strategy, steps |-> steps,
   confidence_score |-> confidence, current_step_index |-> 0]

\* _create_fallback_plan with the request's strategy
create_fallback_plan_keep_strategy(rq, h) ==
  PlannedPlan(rq, rq.planning_strategy,
              <<PlannedStep("fallback", h, SEARCH, rq.query.words, rq.sources,
                            rq.max_results_per_iteration)>>, 500)

\* SearchPlanner._create_fallback_plan
create_fallback_plan(rq, h) ==
  PlannedPlan(rq, SIMPLE,
              <<PlannedStep("fallback", h, SEARCH, rq.query.words, rq.sources,
                            rq.max_results_per_iteration)>>, 500)

\* SearchPlanner.create_execution_plan for the analysis an that
\* _safe_analyze_query returned; fault names a sub-stage made to raise. The
\* result is the plan returned and the stage whose exception reached the
\* except clause ("none": the try block ran to its return).
create_execution_plan(rq, atype, an, dyn, ids, fault) ==
  LET strategy == generate_strategy(rq, an)
      steps == decompose_task(rq, an, dyn, ids, FALSE)
  IN IF fault \in {"analysis", "strategy", "decompose"}
     THEN [plan |-> create_fallback_plan(rq, ids[1]), raised |-> fault]
     ELSE IF ~validate_plan(steps)
     THEN [plan |-> create_fallback_plan(rq, ids[1]), raised |-> "validate"]
     ELSE IF plan_confidence_raises(an)
     THEN [plan |-> create_fallback_plan(rq, ids[1]), raised |-> "confidence"]
     ELSE [plan |-> PlannedPlan(rq, strategy, steps,
                                calculate_plan_confidence(atype, an, steps)),
           raised |-> "none"]

\* step.query.lower().strip()
query_key(step) == [i \in DOMAIN step.query |-> Lower(step.query[i])]

\* _deduplicate_steps comparing the queries as they are written
RECURSIVE deduplicate_steps_exact_query(_)
deduplicate_steps_exact_query(steps) ==
  IF steps = <<>> THEN <<>>
  ELSE LET front == deduplicate_steps_exact_query(SubSeq(steps, 1, Len(steps) - 1))
           last == steps[Len(steps)]
       IN IF \E i \in DOMAIN front : front[i].query = last.query
          THEN front ELSE Append(front, last)

\* SearchPlanner._deduplicate_steps
RECURSIVE deduplicate_steps(_)
deduplicate_steps(steps) ==
  IF steps = <<>> THEN <<>>
  ELSE LET front == deduplicate_steps(SubSeq(steps, 1, Len(steps) - 1))
           last == steps[Len(steps)]
       IN IF \E i \in DOMAIN front : query_key(front[i]) = query_key(last)
          THEN front ELSE Append(front, last)

\* SearchPlanner._reorder_steps
reorder_steps(steps, strategy) ==
  IF strategy = ITERATIVE
  THEN SelectIdx(steps, {i \in DOMAIN steps : steps[i].step_type = SEARCH})
       \o SelectIdx(steps, {i \in DOMAIN steps : steps[i].step_type \notin {SEARCH, ANALYZE}})
       \o SelectIdx(steps, {i \in DOMAIN steps : steps[i].step_type = ANALYZE})
  ELSE steps

\* SearchPlanner._can_merge_steps
can_merge_steps(s1, s2) ==
  /\ s1.step_type = SEARCH /\ s2.step_type = SEARCH
  /\ LET w1 == {Lower(s1.query[i]) : i \in DOMAIN s1.query}
         w2 == {Lower(s2.query[i]) : i \in DOMAIN s2.query}
         overlap == Cardinality(w1 \cap w2)
         total == Cardinality(w1 \cup w2)
     IN total > 0 /\ 2 * overlap > total

\* SearchPlanner._merge_two_steps (sources are kept as the set of their members)
merge_two_steps(s1, s2, h) ==
  PlannedStep("merged", h, SEARCH, s1.query \o s2.query, s1.sources \cup s2.sources,
              Max(s1.max_results, s2.max_results))

\* SearchPlanner._merge_compatible_steps; ids: the uuids of the merged steps
RECURSIVE merge_compatible_steps(_, _)
merge_compatible_steps(steps, ids) ==
  IF Len(steps) <= 1 THEN steps
  ELSE IF can_merge_steps(steps[1], steps[2])
  THEN <<merge_two_steps(steps[1], steps[2], Head(ids))>>
       \o merge_compatible_steps(SubSeq(steps, 3, Len(steps)), Tail(ids))
  ELSE <<steps[1]>> \o merge_compatible_steps(Tail(steps), ids)

\* SearchPlanner.optimize_plan: the optimized plan, or the plan it was given
\* when _validate_plan raises
optimize_plan(p, ids) ==
  LET optimized == merge_compatible_steps(reorder_steps(deduplicate_steps(p.steps), p.strategy), ids)
  IN IF validate_plan(optimized) THEN [p EXCEPT !.steps = optimized, !.current_step_index = 0]
     ELSE p

\* the planner before any call, and outside the planner's specification
NoAnalysis ==
  [is_object |-> FALSE, query_type |-> "general", complexity |-> "simple",
   requires_multiple_searches |-> FALSE, suggested_refinements |-> <<>>, confidence |-> "none"]

NoPlan ==
  [original_query |-> <<>>, strategy |-> SIMPLE, steps |-> <<>>,
   confidence_score |-> 0, current_step_index |-> 0]

MkPlanner(pos, rq, atype, dyn) ==
  [pc |-> pos, request |-> rq, analyzer |-> atype, dyn |-> dyn,
   analysis |-> NoAnalysis, strategy |-> SIMPLE, steps |-> <<>>, plan |-> NoPlan,
   raised |-> "none"]

\* no method has been called on its own
NoCall == [method |-> "none"]

NoPlanner ==
  MkPlanner("off", [query |-> QEmpty, planning_strategy |-> ADAPTIVE, sources |-> {"zai"},
                    max_results_per_iteration |-> 10], "rule_based", TRUE)

\* ------------------------------------------------------------------ Init
Init ==
  /\ pc = [r \in Runs |-> "idle"]
  /\ req = <<>>
  /\ sid = <<>>
  /\ plan = <<>>
  /\ idx = [r \in Runs |-> 0]
  /\ st = <<>>
  /\ states = <<>>
  /\ traces = <<>>
  /\ metrics = {}
  /\ final = <<>>
  /\ resp = <<>>
  /\ now = 0
  /\ llm \in BOOLEAN
  /\ cancelledMid = [r \in Runs |-> FALSE]
  /\ stopReason = [r \in Runs |-> ""]
  /\ pl = NoPlanner
  /\ fn = NoCall

\* --------------------------------------------------- SearchAgent.search
\* search(), lines 53-67: the session id, tracing and monitoring, up to the
\* await of planner.create_execution_plan
StartSearch(r) ==
  /\ pc[r] = "idle"
  /\ OthersSuspended(r)
  /\ \E h \in Hex, rq \in Requests :
       /\ sid' = Put(sid, r, AgentId(h))
       /\ req' = Put(req, r, rq)
       /\ traces' = IF rq.enable_tracing
                    THEN Put(traces, AgentId(h), <<"session_start">>) ELSE traces
       /\ metrics' = IF rq.enable_performance_monitoring
                     THEN metrics \cup {AgentId(h)} ELSE metrics
  /\ pc' = [pc EXCEPT ![r] = "planning"]
  /\ UNCHANGED <<plan, idx, st, states, final, resp, now, llm, pl, fn, cancelledMid, stopReason>>

\* search(), lines 67-78: the planner returns a plan, the decision is traced,
\* execute_plan is entered
PlanCreated(r) ==
  /\ pc[r] = "planning"
  /\ OthersSuspended(r)
  /\ \E p \in Plans : plan' = Put(plan, r, p)
  /\ traces' = IF req[r].enable_tracing THEN Trace(traces, sid[r], "plan_created") ELSE traces
  /\ pc' = [pc EXCEPT ![r] = "create_state"]
  /\ UNCHANGED <<req, sid, idx, st, states, metrics, final, resp, now, llm, pl, fn, cancelledMid, stopReason>>

\* ------------------------------------------- StateManager / LoopExecutor
\* StateManager.create_state (execute_plan line 423)
create_state(r) ==
  /\ pc[r] = "create_state"
  /\ OthersSuspended(r)
  /\ \E h \in HexFor(r) :
       /\ st' = Put(st, r, MkState(SessionId(h), now))
       /\ states' = Put(states, SessionId(h), r)
  /\ pc' = [pc EXCEPT ![r] = "set_running"]
  /\ UNCHANGED <<req, sid, plan, idx, traces, metrics, final, resp, now, llm, pl, fn, cancelledMid, stopReason>>

\* execute_plan line 424: state.status = RUNNING
SetRunning(r) ==
  /\ pc[r] = "set_running"
  /\ OthersSuspended(r)
  /\ st' = [st EXCEPT ![r].status = RUNNING]
  /\ idx' = [idx EXCEPT ![r] = 0]
  /\ pc' = [pc EXCEPT ![r] = "loop"]
  /\ UNCHANGED <<req, sid, plan, states, traces, metrics, final, resp, now, llm, pl, fn, cancelledMid, stopReason>>

\* execute_plan lines 430-435: the head of the for loop and the
\* should_continue_execution check
LoopCheck(r) ==
  /\ pc[r] = "loop"
  /\ OthersSuspended(r)
  /\ pc' = [pc EXCEPT ![r] =
       IF idx[r] >= Len(plan[r].steps) THEN "finalize"
       ELSE IF should_continue_execution(st[r], plan[r], req[r], now)[1] THEN "step_start"
       ELSE "finalize"]
  /\ stopReason' = [stopReason EXCEPT ![r] =
       IF idx[r] >= Len(plan[r].steps) THEN ""
       ELSE IF should_continue_execution(st[r], plan[r], req[r], now)[1] THEN ""
       ELSE should_continue_execution(st[r], plan[r], req[r], now)[2]]
  /\ UNCHANGED <<req, sid, plan, idx, st, states, traces, metrics, final, resp, now, llm, pl, fn, cancelledMid>>

\* ------------------------------------------------------ ExecutionEngine
\* the step the loop is at
CurStep(r) == plan[r].steps[idx[r] + 1]

SetCurStep(r, step) == [plan EXCEPT ![r].steps[idx[r] + 1] = step]

\* _refine_query_based_on_results: the keywords of the first 5 results
refine_keywords(results) ==
  LET top == Take(results, 5)
  IN {w \in UNION {top[i].words : i \in DOMAIN top} : IsKeyword(w)}

\* list(keywords)[:2]: set order is arbitrary
top_keywords(K) ==
  IF K = {} THEN {<<>>}
  ELSE IF Cardinality(K) = 1 THEN {<<k>> : k \in K}
  ELSE {<<p[1], p[2]>> : p \in {q \in K \X K : q[1] # q[2]}}

\* ExecutionEngine._execute_validate_step: the results kept
validated_results(s, rq) ==
  SelectIdx(s.all_results,
            {i \in DOMAIN s.all_results :
               relevance_at_least(s.all_results[i], rq.confidence_threshold)})

\* _execute_validate_step lines 346-350 bind step.results and
\* state.all_results to one list object: the validate step (at or before
\* position i of the plan) whose results list state.all_results still is,
\* 0 when there is none
aliased_step(p, i) ==
  LET V == {j \in 1..i : p.steps[j].step_type = VALIDATE /\ p.steps[j].status = COMPLETED}
  IN IF V = {} THEN 0 ELSE CHOOSE j \in V : \A k \in V : k <= j

\* ExecutionStep.start
step_start(step) == [step EXCEPT !.status = RUNNING]

\* execute_step lines 169-171: step.start()
StepStart(r) ==
  /\ pc[r] = "step_start"
  /\ OthersSuspended(r)
  /\ plan' = SetCurStep(r, step_start(CurStep(r)))
  /\ pc' = [pc EXCEPT ![r] = "step_run"]
  /\ UNCHANGED <<req, sid, idx, st, states, traces, metrics, final, resp, now, llm, pl, fn, cancelledMid, stopReason>>

\* the analyze and summarize handlers handing back the results they read
StepDispatch_analysis_returns_input(r) ==
  /\ pc[r] = "step_run"
  /\ OthersSuspended(r)
  /\ LET started == CurStep(r)
         t == started.step_type
     IN \/ /\ t = SEARCH \/ (t = REFINE /\ st[r].all_results = <<>>)
           /\ plan' = SetCurStep(r, started)
           /\ pc' = [pc EXCEPT ![r] = "step_io"]
           /\ st' = st
        \/ /\ t = REFINE /\ st[r].all_results # <<>>
           /\ \E kws \in top_keywords(refine_keywords(st[r].all_results)) :
                plan' = SetCurStep(r, [started EXCEPT !.refined = kws])
           /\ pc' = [pc EXCEPT ![r] = "step_io"]
           /\ st' = st
        \/ /\ t \in {ANALYZE, SUMMARIZE}
           /\ st[r].all_results = <<>>
           /\ plan' = SetCurStep(r, step_complete([started EXCEPT !.summary = "no results"]))
           /\ pc' = [pc EXCEPT ![r] = "post_step"]
           /\ st' = st
        \/ /\ t \in {ANALYZE, SUMMARIZE}
           /\ st[r].all_results # <<>>
           /\ IF llm
              THEN /\ plan' = SetCurStep(r, started)
                   /\ pc' = [pc EXCEPT ![r] = "step_io"]
              ELSE /\ plan' = SetCurStep(r, step_complete([started EXCEPT
                                       !.results = Take(st[r].all_results, 10)]))
                   /\ pc' = [pc EXCEPT ![r] = "post_step"]
           /\ st' = st
        \/ /\ t = VALIDATE
           /\ LET kept == validated_results(st[r], req[r])
              IN /\ plan' = SetCurStep(r, step_complete([started EXCEPT !.results = kept,
                                                                      !.summary = "validated"]))
                 /\ st' = [st EXCEPT ![r].all_results = kept]
           /\ pc' = [pc EXCEPT ![r] = "post_step"]
  /\ UNCHANGED <<req, sid, idx, states, traces, metrics, final, resp, now, llm, pl, fn, cancelledMid, stopReason>>

\* execute_step lines 173-197, up to the first await of the step's handler;
\* a handler that does not await runs to step.complete()
StepDispatch(r) ==
  /\ pc[r] = "step_run"
  /\ OthersSuspended(r)
  /\ LET started == CurStep(r)
         t == started.step_type
     IN \/ /\ t = SEARCH \/ (t = REFINE /\ st[r].all_results = <<>>)
           /\ plan' = SetCurStep(r, started)
           /\ pc' = [pc EXCEPT ![r] = "step_io"]
           /\ st' = st
        \/ /\ t = REFINE /\ st[r].all_results # <<>>
           /\ \E kws \in top_keywords(refine_keywords(st[r].all_results)) :
                plan' = SetCurStep(r, [started EXCEPT !.refined = kws])
           /\ pc' = [pc EXCEPT ![r] = "step_io"]
           /\ st' = st
        \/ /\ t \in {ANALYZE, SUMMARIZE}
           /\ st[r].all_results = <<>>
           /\ plan' = SetCurStep(r, step_complete([started EXCEPT !.summary = "no results"]))
           /\ pc' = [pc EXCEPT ![r] = "post_step"]
           /\ st' = st
        \/ /\ t \in {ANALYZE, SUMMARIZE}
           /\ st[r].all_results # <<>>
           /\ IF llm
              THEN /\ plan' = SetCurStep(r, started)
                   /\ pc' = [pc EXCEPT ![r] = "step_io"]
              ELSE /\ plan' = SetCurStep(r, step_complete(started))
                   /\ pc' = [pc EXCEPT ![r] = "post_step"]
           /\ st' = st
        \/ /\ t = VALIDATE
           /\ LET kept == validated_results(st[r], req[r])
              IN /\ plan' = SetCurStep(r, step_complete([started EXCEPT !.results = kept,
                                                                      !.summary = "validated"]))
                 /\ st' = [st EXCEPT ![r].all_results = kept]
           /\ pc' = [pc EXCEPT ![r] = "post_step"]
  /\ UNCHANGED <<req, sid, idx, states, traces, metrics, final, resp, now, llm, pl, fn, cancelledMid, stopReason>>

\* _execute_search_step counting a search only when it was not served from
\* the cache
SearchReturns_counts_misses(r) ==
  /\ pc[r] = "step_io"
  /\ OthersSuspended(r)
  /\ CurStep(r).step_type \in {SEARCH, REFINE}
  /\ \E response \in Responses :
       /\ LET done == SetCurStep(r, step_complete([CurStep(r) EXCEPT !.results = response.results]))
              j == aliased_step(plan[r], idx[r])
          IN plan' = IF j = 0 THEN done
                     ELSE [done EXCEPT ![r].steps[j].results = @ \o response.results]
       /\ st' = [st EXCEPT ![r] =
                   [add_results(@, response.results) EXCEPT
                      !.total_searches = IF response.cache_hit THEN @ ELSE @ + 1,
                      !.cache_hits = IF response.cache_hit THEN @ + 1 ELSE @]]
  /\ pc' = [pc EXCEPT ![r] = "post_step"]
  /\ UNCHANGED <<req, sid, idx, states, traces, metrics, final, resp, now, llm, pl, fn, cancelledMid, stopReason>>

\* _execute_search_step lines 223-241 and execute_step lines 188-197:
\* the search collaborator returns a response; state.add_results extends the
\* list in place, so a validate step sharing that list sees the new results
SearchReturns(r) ==
  /\ pc[r] = "step_io"
  /\ OthersSuspended(r)
  /\ CurStep(r).step_type \in {SEARCH, REFINE}
  /\ \E response \in Responses :
       /\ LET done == SetCurStep(r, step_complete([CurStep(r) EXCEPT !.results = response.results]))
              j == aliased_step(plan[r], idx[r])
          IN plan' = IF j = 0 THEN done
                     ELSE [done EXCEPT ![r].steps[j].results = @ \o response.results]
       /\ st' = [st EXCEPT ![r] =
                   [add_results(@, response.results) EXCEPT
                      !.total_searches = @ + 1,
                      !.cache_hits = IF response.cache_hit THEN @ + 1 ELSE @]]
  /\ pc' = [pc EXCEPT ![r] = "post_step"]
  /\ UNCHANGED <<req, sid, idx, states, traces, metrics, final, resp, now, llm, pl, fn, cancelledMid, stopReason>>

\* execute_step lines 199-204: the search collaborator raises
SearchRaises(r) ==
  /\ pc[r] = "step_io"
  /\ OthersSuspended(r)
  /\ CurStep(r).step_type \in {SEARCH, REFINE}
  /\ plan' = SetCurStep(r, step_fail(CurStep(r), StepErrorMsg))
  /\ st' = [st EXCEPT ![r] = add_error(@, StepErrorMsg)]
  /\ pc' = [pc EXCEPT ![r] = "post_step"]
  /\ UNCHANGED <<req, sid, idx, states, traces, metrics, final, resp, now, llm, pl, fn, cancelledMid, stopReason>>

\* the handlers without their inner try: an exception of enhance reaches the
\* except clause of execute_step
LlmReturns_uncaught(r) ==
  /\ pc[r] = "step_io"
  /\ OthersSuspended(r)
  /\ CurStep(r).step_type \in {ANALYZE, SUMMARIZE}
  /\ \/ \E summary \in Summaries :
          /\ plan' = SetCurStep(r, step_complete([CurStep(r) EXCEPT !.summary = summary]))
          /\ st' = IF CurStep(r).step_type = SUMMARIZE
                   THEN [st EXCEPT ![r].final_summary = summary] ELSE st
     \/ /\ plan' = SetCurStep(r, step_fail(CurStep(r), StepErrorMsg))
        /\ st' = [st EXCEPT ![r] = add_error(@, StepErrorMsg)]
  /\ pc' = [pc EXCEPT ![r] = "post_step"]
  /\ UNCHANGED <<req, sid, idx, states, traces, metrics, final, resp, now, llm, pl, fn, cancelledMid, stopReason>>

\* _execute_analyze_step lines 255-276 / _execute_summarize_step lines
\* 306-332: llm_enhancer.enhance returns or raises (the handler catches it)
LlmReturns(r) ==
  /\ pc[r] = "step_io"
  /\ OthersSuspended(r)
  /\ CurStep(r).step_type \in {ANALYZE, SUMMARIZE}
  /\ \/ \E summary \in Summaries :
          /\ plan' = SetCurStep(r, step_complete([CurStep(r) EXCEPT !.summary = summary]))
          /\ st' = IF CurStep(r).step_type = SUMMARIZE
                   THEN [st EXCEPT ![r].final_summary = summary] ELSE st
     \/ /\ plan' = SetCurStep(r, step_complete([CurStep(r) EXCEPT !.summary = "llm failed"]))
        /\ st' = st
  /\ pc' = [pc EXCEPT ![r] = "post_step"]
  /\ UNCHANGED <<req, sid, idx, states, traces, metrics, final, resp, now, llm, pl, fn, cancelledMid, stopReason>>

\* the tail of the loop body writing step_index for step_index + 1
PostStep_cursor_behind(r) ==
  /\ pc[r] = "post_step"
  /\ OthersSuspended(r)
  /\ plan' = [plan EXCEPT ![r].current_step_index = idx[r]]
  /\ idx' = [idx EXCEPT ![r] = @ + 1]
  /\ pc' = [pc EXCEPT ![r] = "loop"]
  /\ UNCHANGED <<req, sid, st, states, traces, metrics, final, resp, now, llm, pl, fn, cancelledMid, stopReason>>

\* execute_plan lines 440-447: evaluate_step_success and, for an
\* unsuccessful step that is not the last one, should_refine_query
RefineDecision(r) ==
  /\ ~evaluate_step_success(CurStep(r)).success
  /\ idx[r] < Len(plan[r].steps) - 1
  /\ should_refine_query(CurStep(r), req[r])[1]

\* the loop tail with a refinement branch that rewrites the next step
advance_plan_refining(p, step_index, should_refine) ==
  IF should_refine
  THEN [p EXCEPT !.current_step_index = step_index + 1,
                 !.steps[step_index + 2].refined = <<"claude">>]
  ELSE [p EXCEPT !.current_step_index = step_index + 1]

\* execute_plan lines 448-452: the branch taken on should_refine only
\* logs; plan.current_step_index = step_index + 1
advance_plan(p, step_index, should_refine) ==
  [p EXCEPT !.current_step_index = step_index + 1]

\* execute_plan lines 440-452: the tail of the loop body
PostStep(r) ==
  /\ pc[r] = "post_step"
  /\ OthersSuspended(r)
  /\ plan' = [plan EXCEPT ![r] = advance_plan(@, idx[r], RefineDecision(r))]
  /\ idx' = [idx EXCEPT ![r] = @ + 1]
  /\ pc' = [pc EXCEPT ![r] = "loop"]
  /\ UNCHANGED <<req, sid, st, states, traces, metrics, final, resp, now, llm, pl, fn, cancelledMid, stopReason>>

\* execute_plan lines 460-463: an exception raised by the loop outside
\* execute_step (should_continue_execution, evaluate_step_success,
\* should_refine_query) or by _finalize_execution reaches the except
\* clause: state.fail(error_msg)
execute_plan_except(r) ==
  /\ pc[r] \in {"loop", "post_step", "finalize", "fin_step", "fin_tail"}
  /\ OthersSuspended(r)
  /\ st' = [st EXCEPT ![r] = state_fail(@, PlanErrorMsg)]
  /\ pc' = [pc EXCEPT ![r] = "returned"]
  /\ UNCHANGED <<req, sid, plan, idx, states, traces, metrics, final, resp, now, llm, pl, fn, cancelledMid, stopReason>>

\* _finalize_execution with the summary test reduced to the results test
Finalize_ignores_summary(r) ==
  /\ pc[r] = "finalize"
  /\ OthersSuspended(r)
  /\ pc' = [pc EXCEPT ![r] =
       IF st[r].all_results # <<>> THEN "fin_step" ELSE "fin_tail"]
  /\ UNCHANGED <<req, sid, plan, idx, st, states, traces, metrics, final, resp, now, llm, pl, fn, cancelledMid, stopReason>>

\* _finalize_execution line 469: a summarize step is synthesized when there
\* is no final summary yet and there are results
Finalize(r) ==
  /\ pc[r] = "finalize"
  /\ OthersSuspended(r)
  /\ pc' = [pc EXCEPT ![r] =
       IF st[r].final_summary = "" /\ st[r].all_results # <<>>
       THEN "fin_step" ELSE "fin_tail"]
  /\ UNCHANGED <<req, sid, plan, idx, st, states, traces, metrics, final, resp, now, llm, pl, fn, cancelledMid, stopReason>>

\* _finalize_execution lines 471-481: the synthesized step is a local
\* ExecutionStep handed to execute_step; the summarize handler awaits the LLM
\* when there is one and otherwise completes the step at once
FinalSummarizeStep(r) ==
  /\ pc[r] = "fin_step"
  /\ OthersSuspended(r)
  /\ pc' = [pc EXCEPT ![r] = IF llm THEN "fin_io" ELSE "fin_tail"]
  /\ UNCHANGED <<req, sid, plan, idx, st, states, traces, metrics, final, resp, now, llm, pl, fn, cancelledMid, stopReason>>

\* _execute_summarize_step lines 306-332 for the synthesized step: enhance
\* returns (state.final_summary is set) or raises (caught by the handler)
FinalizeLlmReturns(r) ==
  /\ pc[r] = "fin_io"
  /\ OthersSuspended(r)
  /\ \/ \E summary \in Summaries : st' = [st EXCEPT ![r].final_summary = summary]
     \/ st' = st
  /\ pc' = [pc EXCEPT ![r] = "fin_tail"]
  /\ UNCHANGED <<req, sid, plan, idx, states, traces, metrics, final, resp, now, llm, pl, fn, cancelledMid, stopReason>>

\* _finalize_execution lines 484-488 and execute_plan lines 457-465:
\* deduplicate, sort, truncate, state.complete(), return state
FinishFinalize(r) ==
  /\ pc[r] = "fin_tail"
  /\ OthersSuspended(r)
  /\ st' = [st EXCEPT ![r] = state_complete(finalize_results(@, req[r]))]
  /\ pc' = [pc EXCEPT ![r] = "returned"]
  /\ UNCHANGED <<req, sid, plan, idx, states, traces, metrics, final, resp, now, llm, pl, fn, cancelledMid, stopReason>>

\* ----------------------------------------- SearchAgent.search, the rest
\* _process_final_results lines 165-210, up to the await of
\* analyze_content_quality
ProcessFinalResults(r) ==
  /\ pc[r] = "returned"
  /\ OthersSuspended(r)
  /\ final' = Put(final, r, IF st[r].all_results = <<>> THEN <<>>
                            ELSE process_final_results(st[r], req[r]))
  /\ pc' = [pc EXCEPT ![r] =
       IF st[r].all_results # <<>> /\ req[r].enable_performance_monitoring
       THEN "quality_io" ELSE "build"]
  /\ UNCHANGED <<req, sid, plan, idx, st, states, traces, metrics, resp, now, llm, pl, fn, cancelledMid, stopReason>>

\* _process_final_results lines 210-216: analyze_content_quality returns
QualityReturns(r) ==
  /\ pc[r] = "quality_io"
  /\ OthersSuspended(r)
  /\ pc' = [pc EXCEPT ![r] = "build"]
  /\ UNCHANGED <<req, sid, plan, idx, st, states, traces, metrics, final, resp, now, llm, pl, fn, cancelledMid, stopReason>>

\* _build_response and search() lines 91-96
build_response(r) ==
  /\ pc[r] = "build"
  /\ OthersSuspended(r)
  /\ resp' = Put(resp, r,
       [success |-> st[r].status = COMPLETED, session_id |-> sid[r],
        results |-> final[r], errors |-> st[r].errors, warnings |-> <<>>])
  /\ traces' = IF req[r].enable_tracing THEN Trace(traces, sid[r], "session_end") ELSE traces
  /\ pc' = [pc EXCEPT ![r] = "cleanup"]
  /\ UNCHANGED <<req, sid, plan, idx, st, states, metrics, final, now, llm, pl, fn, cancelledMid, stopReason>>

\* search() lines 98-112: an exception raised by _process_final_results or
\* _build_response; the error response
search_except(r) ==
  /\ pc[r] \in {"returned", "build"}
  /\ OthersSuspended(r)
  /\ resp' = Put(resp, r,
       [success |-> FALSE, session_id |-> sid[r],
        results |-> <<>>, errors |-> <<SearchErrorMsg>>, warnings |-> <<>>])
  /\ traces' = IF req[r].enable_tracing
               THEN Put(traces, sid[r],
                        Append(IF sid[r] \in DOMAIN traces THEN traces[sid[r]] ELSE <<>>, "error"))
               ELSE traces
  /\ pc' = [pc EXCEPT ![r] = "cleanup"]
  /\ UNCHANGED <<req, sid, plan, idx, st, states, metrics, final, now, llm, pl, fn, cancelledMid, stopReason>>

\* _cleanup_session lines 347-352: executor.cleanup_session(session_id) with
\* the session id of search(), then the await of asyncio.sleep(1)
cleanup_session(r) ==
  /\ pc[r] = "cleanup"
  /\ OthersSuspended(r)
  /\ states' = IF sid[r] \in DOMAIN states THEN Del(states, sid[r]) ELSE states
  /\ pc' = [pc EXCEPT ![r] = "cleanup_sleep"]
  /\ UNCHANGED <<req, sid, plan, idx, st, traces, metrics, final, resp, now, llm, pl, fn, cancelledMid, stopReason>>

\* search() returns its response to the caller
SearchReturn(r) ==
  /\ pc[r] = "cleanup_sleep"
  /\ OthersSuspended(r)
  /\ pc' = [pc EXCEPT ![r] = "done"]
  /\ UNCHANGED <<req, sid, plan, idx, st, states, traces, metrics, final, resp, now, llm, pl, fn, cancelledMid, stopReason>>

\* SearchAgent.cancel_search, called by another task with any session id
cancel_search(id) ==
  /\ AllSuspended
  /\ IF id \in DOMAIN states
     THEN LET r == states[id]
          IN /\ st' = [st EXCEPT ![r].status = CANCELLED]
             /\ traces' = IF req[r].enable_tracing
                          THEN Trace(traces, id, "search_cancelled") ELSE traces
             /\ cancelledMid' = [cancelledMid EXCEPT ![r] =
                                   @ \/ (pc[r] = "step_io" /\ st[r].status = RUNNING)]
     ELSE UNCHANGED <<st, traces, cancelledMid>>
  /\ UNCHANGED <<pc, req, sid, plan, idx, states, metrics, final, resp, now, llm, pl, fn, stopReason>>

\* the wall clock advances while the tasks are suspended (the code between
\* two awaits takes no time)
Tick ==
  /\ AllSuspended
  /\ now < MaxTime
  /\ now' = now + 1
  /\ UNCHANGED <<pc, req, sid, plan, idx, st, states, traces, metrics, final, resp, llm, pl, fn, cancelledMid, stopReason>>

Next ==
  \/ \E r \in Runs : StartSearch(r)
  \/ \E r \in Runs : PlanCreated(r)
  \/ \E r \in Runs : create_state(r)
  \/ \E r \in Runs : SetRunning(r)
  \/ \E r \in Runs : LoopCheck(r)
  \/ \E r \in Runs : StepStart(r)
  \/ \E r \in Runs : StepDispatch(r)
  \/ \E r \in Runs : SearchReturns(r)
  \/ \E r \in Runs : SearchRaises(r)
  \/ \E r \in Runs : LlmReturns(r)
  \/ \E r \in Runs : PostStep(r)
  \/ \E r \in Runs : Finalize(r)
  \/ \E r \in Runs : FinalSummarizeStep(r)
  \/ \E r \in Runs : FinalizeLlmReturns(r)
  \/ \E r \in Runs : FinishFinalize(r)
  \/ \E r \in Runs : ProcessFinalResults(r)
  \/ \E r \in Runs : QualityReturns(r)
  \/ \E r \in Runs : build_response(r)
  \/ \E r \in Runs : cleanup_session(r)
  \/ \E r \in Runs : SearchReturn(r)
  \/ \E id \in Ids : cancel_search(id)
  \/ Tick

Spec == Init /\ [][Next]_vars

\* one step of execute_plan for a call: the code between two awaits runs
\* once the event loop resumes the task, and an awaited collaborator call
\* returns or raises
ExecutePlanStep(r) ==
  \/ create_state(r) \/ SetRunning(r) \/ LoopCheck(r) \/ StepStart(r)
  \/ StepDispatch(r) \/ SearchReturns(r) \/ SearchRaises(r) \/ LlmReturns(r)
  \/ PostStep(r) \/ Finalize(r) \/ FinalSummarizeStep(r)
  \/ FinalizeLlmReturns(r) \/ FinishFinalize(r)

\* LoopExecutor.execute_plan called with a request and a fresh plan
InitLive ==
  /\ pc = [r \in Runs |-> "create_state"]
  /\ \E rq \in Requests : req = [r \in Runs |-> rq]
  /\ \E p \in Plans : plan = [r \in Runs |-> p]
  /\ sid = <<>>
  /\ idx = [r \in Runs |-> 0]
  /\ st = <<>>
  /\ states = <<>>
  /\ traces = <<>>
  /\ metrics = {}
  /\ final = <<>>
  /\ resp = <<>>
  /\ now = 0
  /\ llm \in BOOLEAN
  /\ cancelledMid = [r \in Runs |-> FALSE]
  /\ stopReason = [r \in Runs |-> ""]
  /\ pl = NoPlanner
  /\ fn = NoCall

NextLive ==
  \/ \E r \in Runs : ExecutePlanStep(r)
  \/ \E id \in Ids : cancel_search(id)
  \/ Tick

\* the event loop resumes a task that is ready and an awaited collaborator
\* call returns or raises: a call inside execute_plan moves on
Resumed(r) ==
  /\ pc[r] \in {"create_state", "set_running", "loop", "step_start", "step_run",
                "step_io", "post_step", "finalize", "fin_step", "fin_io", "fin_tail"}
  /\ \E next \in {"set_running", "loop", "step_start", "step_run", "step_io",
                   "post_step", "finalize", "fin_step", "fin_io", "fin_tail", "returned"} :
       /\ next # pc[r]
       /\ pc' = [pc EXCEPT ![r] = next]

\* execute_plan with every task resumed and every collaborator call answered
SpecLive == InitLive /\ [][NextLive]_vars /\ \A r \in Runs : WF_pc(Resumed(r))

\* two calls of search() on one SearchAgent, both awaiting the planner
InitTwo ==
  /\ pc = [r \in TwoRuns |-> "planning"]
  /\ req = [r \in TwoRuns |-> MkRequest(3, 50, 300, FALSE, TRUE, 7)]
  /\ plan = <<>>
  /\ sid = <<>>
  /\ idx = [r \in TwoRuns |-> 0]
  /\ st = <<>>
  /\ states = <<>>
  /\ traces = <<>>
  /\ metrics = {}
  /\ final = <<>>
  /\ resp = <<>>
  /\ now = 0
  /\ llm = TRUE
  /\ cancelledMid = [r \in TwoRuns |-> FALSE]
  /\ stopReason = [r \in TwoRuns |-> ""]
  /\ pl = NoPlanner
  /\ fn = NoCall

\* each call gets its own plan from the planner and runs execute_plan
NextTwo ==
  \/ \E r \in TwoRuns : PlanCreated(r) /\ plan'[r] = MkPlan(<<SEARCH, SUMMARIZE, SEARCH>>)
  \/ \E r \in TwoRuns : ExecutePlanStep(r)
  \/ \E h \in HexStates : cancel_search(SessionId(h))

SpecTwo == InitTwo /\ [][NextTwo]_vars

\* the engine when code outside the collaborators may raise as well
NextFault ==
  \/ Next
  \/ \E r \in Runs : execute_plan_except(r)
  \/ \E r \in Runs : search_except(r)

SpecFault == Init /\ [][NextFault]_vars

\* ------------------------------------------------------ the planner alone
\* a SearchPlanner (analyzer_type, use_dynamic_generation as constructed or
\* as set by set_dynamic_generation) and the request it is called with
InitPlan ==
  /\ pc = [r \in Runs |-> "idle"]
  /\ req = <<>>
  /\ sid = <<>>
  /\ plan = <<>>
  /\ idx = [r \in Runs |-> 0]
  /\ st = <<>>
  /\ states = <<>>
  /\ traces = <<>>
  /\ metrics = {}
  /\ final = <<>>
  /\ resp = <<>>
  /\ now = 0
  /\ llm = FALSE
  /\ cancelledMid = [r \in Runs |-> FALSE]
  /\ stopReason = [r \in Runs |-> ""]
  /\ \E rq \in PlanRequests, atype \in {"rule_based", "advanced"}, dyn \in BOOLEAN :
       pl = MkPlanner("ready", rq, atype, dyn)
  /\ fn = NoCall

\* what _safe_analyze_query returns: the analyzer's result, or the result of
\* the rule-based analyzer when the configured analyzer raised
AnalyzerOutcomes(atype, q) ==
  IF atype = "rule_based" THEN {analyze_query(q)}
  ELSE {a \in Analyses : a.is_object} \cup {analyze_query(q)}

\* SearchPlanner.create_execution_plan
CreateExecutionPlan ==
  /\ pl.pc = "ready"
  /\ \E ids \in IdSeqs, fault \in {"none", "analysis", "strategy", "decompose"},
        an \in AnalyzerOutcomes(pl.analyzer, pl.request.query) :
       LET out == create_execution_plan(pl.request, pl.analyzer, an, pl.dyn, ids, fault)
       IN pl' = [pl EXCEPT !.pc = "planned", !.analysis = an,
                           !.plan = out.plan, !.raised = out.raised]
  /\ UNCHANGED <<execVars, fn>>

\* TaskDecomposer.decompose_task called with any analysis
DecomposeTask ==
  /\ pl.pc = "ready"
  /\ \E an \in Analyses, ids \in IdSeqs, malformed \in BOOLEAN :
       pl' = [pl EXCEPT !.pc = "decomposed", !.analysis = an,
                        !.steps = decompose_task(pl.request, an, pl.dyn, ids, malformed),
                        !.raised = IF malformed THEN "normalize" ELSE "none"]
  /\ UNCHANGED <<execVars, fn>>

\* StrategyGenerator.generate_strategy called with any analysis
GenerateStrategy ==
  /\ pl.pc = "ready"
  /\ \E an \in Analyses :
       pl' = [pl EXCEPT !.pc = "strategized", !.analysis = an,
                        !.strategy = generate_strategy(pl.request, an)]
  /\ UNCHANGED <<execVars, fn>>

\* SearchPlanner.optimize_plan on a plan of create_execution_plan, and on the
\* plan a first optimize_plan returned
OptimizePlan ==
  /\ pl.pc \in {"planned", "optimized"}
  /\ \E ids \in IdSeqs :
       pl' = [pl EXCEPT !.pc = IF pl.pc = "planned" THEN "optimized" ELSE "reoptimized",
                        !.plan = optimize_plan(pl.plan, ids)]
  /\ UNCHANGED <<execVars, fn>>

\* steps as optimize_plan may be given them: queries that differ in case
\* only, equal queries on steps of different types
DedupSteps ==
  {PlannedStep("step", "a", SEARCH, <<"ChatGPT", "vs", "Claude">>, {"zai"}, 10),
   PlannedStep("step", "b", SEARCH, <<"chatgpt", "vs", "claude">>, {"zai"}, 5),
   PlannedStep("step", "c", ANALYZE, <<"ChatGPT", "vs", "Claude">>, {}, 0),
   PlannedStep("step", "d", SEARCH, <<"chatgpt", "pricing">>, {"zai"}, 10)}

DedupInputs == UNION {[1..n -> DedupSteps] : n \in 0..MaxLen}

\* SearchPlanner._deduplicate_steps called with any step list
DeduplicateSteps ==
  /\ pl.pc = "ready" /\ fn = NoCall
  /\ \E steps \in DedupInputs :
       fn' = [method |-> "_deduplicate_steps", arg |-> steps,
              value |-> deduplicate_steps(steps)]
  /\ pl' = [pl EXCEPT !.pc = "deduplicated"]
  /\ UNCHANGED execVars

NextPlan ==
  \/ CreateExecutionPlan
  \/ DecomposeTask
  \/ GenerateStrategy
  \/ OptimizePlan
  \/ DeduplicateSteps

SpecPlan == InitPlan /\ [][NextPlan]_vars

\* ------------------------------------------------ the StateManager alone
\* a StateManager as constructed: self.states = {}; st holds the
\* ExecutionState objects in the order of their creation
InitStates ==
  /\ pc = [r \in Runs |-> "idle"]
  /\ req = <<>>
  /\ sid = <<>>
  /\ plan = <<>>
  /\ idx = [r \in Runs |-> 0]
  /\ st = <<>>
  /\ states = <<>>
  /\ traces = <<>>
  /\ metrics = {}
  /\ final = <<>>
  /\ resp = <<>>
  /\ now = 0
  /\ llm = FALSE
  /\ cancelledMid = [r \in Runs |-> FALSE]
  /\ stopReason = [r \in Runs |-> ""]
  /\ pl = NoPlanner
  /\ fn = NoCall

\* StateManager.create_state: a new ExecutionState under a new uuid-based id,
\* stored with self.states[session_id] = state (no check for the key)
CreateState ==
  /\ Len(st) < MaxCreated
  /\ \E h \in HexStates :
       /\ st' = Put(st, Len(st) + 1, MkState(SessionId(h), now))
       /\ states' = Put(states, SessionId(h), Len(st) + 1)
  /\ UNCHANGED <<pc, req, sid, plan, idx, traces, metrics, final, resp, now, llm, pl, fn, cancelledMid, stopReason>>

\* StateManager.update_state(session_id, status=...)
UpdateState ==
  /\ \E id \in {SessionId(h) : h \in HexStates}, v \in ExecutionStatus :
       st' = IF id \in DOMAIN states THEN [st EXCEPT ![states[id]].status = v] ELSE st
  /\ UNCHANGED <<pc, req, sid, plan, idx, states, traces, metrics, final, resp, now, llm, pl, fn, cancelledMid, stopReason>>

\* StateManager.cleanup_state
CleanupState ==
  /\ \E id \in {SessionId(h) : h \in HexStates} :
       states' = IF id \in DOMAIN states THEN Del(states, id) ELSE states
  /\ UNCHANGED <<pc, req, sid, plan, idx, st, traces, metrics, final, resp, now, llm, pl, fn, cancelledMid, stopReason>>

NextStates ==
  \/ CreateState
  \/ UpdateState
  \/ CleanupState

SpecStates == InitStates /\ [][NextStates]_vars

\* --------------------------------------------- DataProcessingTools alone
\* the tools are handed a result list
InitTools ==
  /\ pc = [r \in Runs |-> "idle"]
  /\ req = <<>>
  /\ sid = <<>>
  /\ plan = <<>>
  /\ idx = [r \in Runs |-> 0]
  /\ st = <<>>
  /\ states = <<>>
  /\ traces = <<>>
  /\ metrics = {}
  /\ final = <<>>
  /\ resp = <<>>
  /\ now = 0
  /\ llm = FALSE
  /\ cancelledMid = [r \in Runs |-> FALSE]
  /\ stopReason = [r \in Runs |-> ""]
  /\ pl = NoPlanner
  /\ \E results \in ToolInputs :
       fn = [method |-> "input", arg |-> "", prev |-> <<>>, results |-> results, calls |-> 0]

\* DataProcessingTools.deduplicate_results on the list at hand
DeduplicateResults ==
  /\ fn.method \in {"input", "deduplicate_results", "rank_results"}
  /\ fn.calls < MaxCalls
  /\ \E method \in {"url", "content", "title", "other"} :
       fn' = [method |-> "deduplicate_results", arg |-> method, prev |-> fn.results,
              results |-> deduplicate_results(fn.results, method), calls |-> fn.calls + 1]
  /\ UNCHANGED <<execVars, pl>>

\* DataProcessingTools.rank_results on the list at hand
RankResults ==
  /\ fn.method \in {"input", "deduplicate_results", "rank_results"}
  /\ fn.calls < MaxCalls
  /\ \E ranking_method \in {"score", "relevance", "freshness", "hybrid", "other"} :
       fn' = [method |-> "rank_results", arg |-> ranking_method, prev |-> fn.results,
              results |-> rank_results(fn.results, ranking_method), calls |-> fn.calls + 1]
  /\ UNCHANGED <<execVars, pl>>

NextTools ==
  \/ DeduplicateResults
  \/ RankResults

SpecTools == InitTools /\ [][NextTools]_vars

\* ------------------------------------------------- the scoring functions
\* no score has been computed
InitScores ==
  /\ pc = [r \in Runs |-> "idle"]
  /\ req = <<>>
  /\ sid = <<>>
  /\ plan = <<>>
  /\ idx = [r \in Runs |-> 0]
  /\ st = <<>>
  /\ states = <<>>
  /\ traces = <<>>
  /\ metrics = {}
  /\ final = <<>>
  /\ resp = <<>>
  /\ now = 0
  /\ llm = FALSE
  /\ cancelledMid = [r \in Runs |-> FALSE]
  /\ stopReason = [r \in Runs |-> ""]
  /\ pl = NoPlanner
  /\ fn = NoCall

\* execute_step lines 187-194 for a step whose handler left these results:
\* the confidence_score step.complete() stores, in hundredths
StepConfidence ==
  /\ fn = NoCall
  /\ \E t \in StepType, results \in ToolInputs :
       LET step == step_complete([MkStep(t) EXCEPT !.results = results])
       IN fn' = [method |-> "calculate_step_confidence", arg |-> <<t, Len(results)>>,
                 value |-> step.confidence_score, scale |-> 100]
  /\ UNCHANGED <<execVars, pl>>

\* create_execution_plan: the confidence_score of the plan it returns, in
\* thousandths
PlanConfidence ==
  /\ fn = NoCall
  /\ \E rq \in PlanRequests, atype \in {"rule_based", "advanced"}, dyn \in BOOLEAN,
        ids \in IdSeqs, an \in Analyses :
       LET out == create_execution_plan(rq, atype, an, dyn, ids, "none")
       IN fn' = [method |-> "calculate_plan_confidence",
                 arg |-> <<atype, an.complexity, an.confidence, Len(out.plan.steps), out.raised>>,
                 value |-> out.plan.confidence_score, scale |-> 1000]
  /\ UNCHANGED <<execVars, pl>>

\* _process_final_results lines 199-201: AgentResult.relevance_score
RelevanceScore ==
  /\ fn = NoCall
  /\ \E res \in ToolResults, query_words \in {QueryWords, {}, {"bar"}} :
       LET score == calculate_relevance_score(res, query_words)
       IN fn' = [method |-> "calculate_relevance_score", arg |-> <<res.url, query_words>>,
                 value |-> score[1], scale |-> score[2]]
  /\ UNCHANGED <<execVars, pl>>

\* _process_final_results lines 202-204: AgentResult.confidence_score, in
\* thousandths
ConfidenceScore ==
  /\ fn = NoCall
  /\ \E res \in ToolResults, score \in ScoreValues, source_name \in SourceNames :
       fn' = [method |-> "calculate_confidence_score", arg |-> <<res.content, score, source_name>>,
              value |-> calculate_confidence_score([res EXCEPT !.score = score], source_name),
              scale |-> 1000]
  /\ UNCHANGED <<execVars, pl>>

\* ConditionEvaluator.evaluate_step_success on a step in any status, with
\* any number of results and any confidence_score (hundredths)
EvaluateStepSuccess ==
  /\ fn = NoCall
  /\ \E t \in StepType, status \in {PENDING, RUNNING, COMPLETED, FAILED},
        n \in 0..MaxResultCount, confidence \in {0, 50, 60, 70, 90, 100},
        error \in {"", StepErrorMsg} :
       LET step == [MkStep(t) EXCEPT !.status = status, !.results = [i \in 1..n |-> ResA],
                                     !.confidence_score = confidence, !.error = error]
       IN fn' = [method |-> "evaluate_step_success", arg |-> step,
                 value |-> evaluate_step_success(step)]
  /\ UNCHANGED <<execVars, pl>>

NextScores ==
  \/ StepConfidence
  \/ PlanConfidence
  \/ RelevanceScore
  \/ ConfidenceScore
  \/ EvaluateStepSuccess

SpecScores == InitScores /\ [][NextScores]_vars

\* ------------------------------------------------------------- helpers
Range(f) == {f[x] : x \in DOMAIN f}

\* the legal changes of ExecutionState.status
LegalStatusChange ==
  {<<PENDING, RUNNING>>, <<RUNNING, COMPLETED>>, <<RUNNING, FAILED>>, <<RUNNING, CANCELLED>>}

\* the steps the loop has executed most recently (at most 3)
RecentSteps(r) == Max(1, idx[r] - 2)..idx[r]

RecentFailures(r) ==
  Cardinality({i \in RecentSteps(r) : plan[r].steps[i].status = FAILED})

\* the steps of the task that runs search() for run r
TaskStep(r) ==
  \/ StartSearch(r) \/ PlanCreated(r) \/ create_state(r) \/ SetRunning(r)
  \/ LoopCheck(r) \/ StepStart(r) \/ StepDispatch(r) \/ SearchReturns(r)
  \/ SearchRaises(r) \/ LlmReturns(r) \/ PostStep(r) \/ Finalize(r)
  \/ FinalizeLlmReturns(r) \/ FinishFinalize(r) \/ ProcessFinalResults(r)
  \/ QualityReturns(r) \/ build_response(r) \/ cleanup_session(r) \/ SearchReturn(r)

\* the number of plan steps of run r that are running
RunningSteps(r) ==
  Cardinality({i \in DOMAIN plan[r].steps : plan[r].steps[i].status = RUNNING})

\* a is b with some entries removed, the rest in their order
RECURSIVE IsSubseq(_, _)
IsSubseq(a, b) ==
  IF a = <<>> THEN TRUE
  ELSE IF b = <<>> THEN FALSE
  ELSE IF Head(a) = Head(b) THEN IsSubseq(Tail(a), Tail(b))
  ELSE IsSubseq(a, Tail(b))

\* the legal changes of ExecutionStep.status
LegalStepChange ==
  {<<PENDING, RUNNING>>, <<RUNNING, COMPLETED>>, <<RUNNING, FAILED>>}

\* the positions of search() after the for loop of execute_plan
AfterLoopPcs ==
  {"finalize", "fin_step", "fin_io", "fin_tail", "returned", "quality_io", "build",
   "cleanup", "cleanup_sleep", "done"}

\* the positions of execute_plan before _finalize_execution
LoopPcs == {"loop", "step_start", "step_run", "step_io", "post_step"}

\* ---------------------------------------------------------------- claims
\* C1: the status of every ExecutionState changes only along
\* pending -> running -> {completed, failed, cancelled}; a completed, failed
\* or cancelled status is never replaced.
C1_StatusMonotone ==
  [][\A r \in DOMAIN st :
       st'[r].status # st[r].status =>
         <<st[r].status, st'[r].status>> \in LegalStatusChange]_vars

\* C2: after cancel_search cancelled a running session while a step was in
\* flight, the next should_continue_execution check returns false, so the
\* loop starts no further step.
C2_CancelStopsLoop ==
  \A r \in DOMAIN st :
    (cancelledMid[r] /\ st[r].status = CANCELLED
       /\ pc[r] = "loop" /\ idx[r] < Len(plan[r].steps))
    => ~should_continue_execution(st[r], plan[r], req[r], now)[1]

\* C3: when a running session was cancelled mid-plan, the state execute_plan
\* returns has status cancelled, and a completed step keeps its results.
C3_CancelledFinalStatus ==
  /\ [](\A r \in DOMAIN st :
          (cancelledMid[r] /\ pc[r] = "returned") => st[r].status = CANCELLED)
  /\ [][\A r \in DOMAIN plan : \A i \in DOMAIN plan[r].steps :
          plan[r].steps[i].status = COMPLETED =>
            plan'[r].steps[i].results = plan[r].steps[i].results]_vars

\* C4: after search() has performed its cleanup, the session map no longer
\* holds the ExecutionState of that run.
C4_SessionEvicted ==
  \A r \in Runs :
    pc[r] \in {"cleanup_sleep", "done"} => \A id \in DOMAIN states : states[id] # r

\* C5: the session id of search() (returned in the response, used for tracing
\* and monitoring) is the key under which the session map holds the run's
\* ExecutionState.
C5_OneSessionId ==
  \A id \in DOMAIN states : sid[states[id]] = id

\* C6: when the search collaborator raises during a search step, the step
\* becomes failed with its error text set, exactly one entry is appended to
\* state.errors, the state's status is left as it is (running), and the loop
\* goes on to the check for the next step.
C6_SearchFailureContained ==
  [][\A r \in Runs :
       /\ SearchRaises(r) =>
            /\ plan'[r].steps[idx[r] + 1].status = FAILED
            /\ plan'[r].steps[idx[r] + 1].error # ""
            /\ Len(st'[r].errors) = Len(st[r].errors) + 1
            /\ st'[r].status = st[r].status
            /\ pc'[r] = "post_step"
       /\ (pc[r] = "post_step" /\ CurStep(r).status = FAILED /\ PostStep(r)) =>
            /\ pc'[r] = "loop"
            /\ idx'[r] = idx[r] + 1
            /\ st'[r] = st[r]]_vars

C6_Witness ==
  \E r \in DOMAIN st :
    /\ pc[r] = "loop"
    /\ idx[r] >= 1 /\ idx[r] < Len(plan[r].steps)
    /\ plan[r].steps[idx[r]].status = FAILED
    /\ plan[r].steps[idx[r]].error = StepErrorMsg
    /\ st[r].status = RUNNING
    /\ st[r].errors = <<StepErrorMsg>>

\* C7: at a loop check to which no earlier stop condition applies,
\* should_continue_execution reports critical errors exactly when at least 2
\* of the 3 most recently executed steps failed.
C7_CriticalErrors ==
  \A r \in DOMAIN st :
    (/\ pc[r] = "loop" /\ idx[r] < Len(plan[r].steps)
     /\ ~is_timeout(st[r], req[r], now)
     /\ ~reached_max_iterations(plan[r], req[r])
     /\ ~has_sufficient_results(st[r], req[r]))
    => (should_continue_execution(st[r], plan[r], req[r], now) = <<FALSE, ReasonCritical>>
          <=> RecentFailures(r) >= 2)

\* C8: for a state that has not timed out, should_continue_execution returns
\* (false, "达到最大迭代次数") whenever the number of completed plan steps is
\* at least request.max_iterations.
C8_MaxIterationsStop ==
  \A r \in DOMAIN st :
    (/\ req[r].timeout <= 0 \/ now - st[r].start_time <= req[r].timeout
     /\ Cardinality({i \in DOMAIN plan[r].steps : plan[r].steps[i].status = COMPLETED})
          >= req[r].max_iterations)
    => should_continue_execution(st[r], plan[r], req[r], now) = <<FALSE, ReasonMaxIterations>>

C8_Witness ==
  \E r \in DOMAIN st :
    /\ pc[r] = "finalize"
    /\ stopReason[r] = ReasonMaxIterations
    /\ idx[r] < Len(plan[r].steps)
    /\ has_sufficient_results(st[r], req[r])
    /\ completed_steps(plan[r]) = req[r].max_iterations

\* C9: when the loop stopped because of the timeout, the run ends completed,
\* the results gathered are returned, and the errors/warnings of the outcome
\* are not empty and record the timeout.
C9_TimeoutRecorded ==
  \A r \in DOMAIN resp :
    stopReason[r] = ReasonTimeout
    => /\ resp[r].success
       /\ resp[r].results = final[r]
       /\ resp[r].errors \o resp[r].warnings # <<>>
       /\ ReasonTimeout \in Range(resp[r].errors \o resp[r].warnings)

\* C10: an unexpected exception in the step loop or in finalization does not
\* escape execute_plan: the returned state is failed and its errors hold the
\* message; search() then returns a response with success = false.
C10_ExceptionContained ==
  /\ [][\A r \in Runs :
          execute_plan_except(r) =>
            /\ st'[r].status = FAILED
            /\ PlanErrorMsg \in Range(st'[r].errors)
            /\ pc'[r] = "returned"]_vars
  /\ [](\A r \in Runs :
          /\ (r \in DOMAIN resp /\ PlanErrorMsg \in Range(st[r].errors)) => ~resp[r].success
          /\ pc[r] = "done" => r \in DOMAIN resp)

C10_Witness ==
  \E r \in DOMAIN resp :
    /\ pc[r] = "done"
    /\ st[r].status = FAILED
    /\ PlanErrorMsg \in Range(st[r].errors)
    /\ resp[r].errors = st[r].errors
    /\ ~resp[r].success

\* C11: a state that execute_plan returns as completed holds no two results
\* with the same url and at most request.total_max_results results, and the
\* response built from it has at most request.total_max_results results.
C11_FinalResultsBounded ==
  \A r \in DOMAIN st :
    /\ (pc[r] = "returned" /\ st[r].status = COMPLETED) =>
         /\ \A i, j \in DOMAIN st[r].all_results :
              i # j => st[r].all_results[i].url # st[r].all_results[j].url
         /\ Len(st[r].all_results) <= req[r].total_max_results
    /\ r \in DOMAIN resp => Len(resp[r].results) <= req[r].total_max_results

\* a completed run that found the same url twice and was cut to the limit
C11_Witness ==
  \E r \in DOMAIN resp :
    /\ st[r].status = COMPLETED /\ resp[r].success
    /\ st[r].total_results_found = 3
    /\ Len(st[r].all_results) = 2
    /\ Len(resp[r].results) = req[r].total_max_results

\* C12: before finalization, state.all_results changes only by a search or
\* refine step appending its results at the end, or by a validate step
\* removing entries while keeping the order of the rest.
C12_AppendOrder ==
  [][\A r \in DOMAIN st :
       pc[r] \in LoopPcs =>
         LET old == st[r].all_results
             new == st'[r].all_results
         IN \/ new = old
            \/ /\ pc[r] = "step_io"
               /\ CurStep(r).step_type \in {SEARCH, REFINE}
               /\ new = old \o plan'[r].steps[idx[r] + 1].results
            \/ /\ pc[r] = "step_run"
               /\ CurStep(r).step_type = VALIDATE
               /\ IsSubseq(new, old)]_vars

\* a validate step removed an entry and the refine step after it appended
C12_Witness ==
  \E r \in DOMAIN st :
    /\ pc[r] = "post_step" /\ idx[r] = 2
    /\ plan[r].steps[2].step_type = VALIDATE
    /\ plan[r].steps[1].results = <<ResB, ResA2>>
    /\ st[r].all_results = <<ResB, ResA>>

\* C13: a plan step's status changes only pending -> running and
\* running -> completed or failed (so a finished step is never started
\* again); when execute_step has returned the step is completed or failed;
\* the steps after the one the loop stopped at are still pending.
C13_StepLifecycle ==
  /\ [][\A r \in DOMAIN plan : \A i \in DOMAIN plan[r].steps :
          plan'[r].steps[i].status # plan[r].steps[i].status =>
            <<plan[r].steps[i].status, plan'[r].steps[i].status>> \in LegalStepChange]_vars
  /\ [](\A r \in DOMAIN plan :
          /\ pc[r] = "post_step" => CurStep(r).status \in {COMPLETED, FAILED}
          /\ pc[r] \in AfterLoopPcs =>
               /\ \A i \in DOMAIN plan[r].steps :
                    i > idx[r] => plan[r].steps[i].status = PENDING
               /\ \A i \in DOMAIN plan[r].steps :
                    i <= idx[r] => plan[r].steps[i].status \in {COMPLETED, FAILED})

\* the loop stopped before the third step, after a completed and a failed one
C13_Witness ==
  \E r \in DOMAIN plan :
    /\ pc[r] = "finalize" /\ idx[r] = 2 /\ Len(plan[r].steps) = 3
    /\ stopReason[r] # ""
    /\ plan[r].steps[1].status = COMPLETED
    /\ plan[r].steps[2].status = FAILED
    /\ plan[r].steps[3].status = PENDING

\* C19: every write to a session's ExecutionState is made by the task that
\* runs that session's execute_plan, and by no other task.
C19_StateOwnedByTask ==
  [][\A r \in DOMAIN st : st'[r] # st[r] => TaskStep(r)]_vars

\* C20: under the parallel strategy the search steps of the plan are
\* dispatched together: while the first dispatch of a parallel plan with
\* several search steps is in flight, more than one step is running.
C20_ParallelDispatch ==
  \A r \in DOMAIN plan :
    (plan[r].strategy = PARALLEL /\ pc[r] = "step_io" /\ idx[r] = 0)
    => RunningSteps(r) > 1

\* C14: every plan returned by create_execution_plan (the fallback plan
\* included) and by optimize_plan has at least one step, and its step ids
\* are pairwise different.
C14_PlanWellFormed ==
  pl.pc \in {"planned", "optimized"} =>
    /\ Len(pl.plan.steps) >= 1
    /\ \A i, j \in DOMAIN pl.plan.steps :
         i # j => pl.plan.steps[i].step_id # pl.plan.steps[j].step_id

\* two uuid calls collided while the three comparison steps were created:
\* _validate_plan raised and the fallback plan was returned
C14_Witness ==
  /\ pl.pc = "planned" /\ pl.raised = "validate"
  /\ ~pl.dyn /\ pl.analysis.query_type = "comparison"
  /\ pl.request.query = QCompare
  /\ Len(pl.plan.steps) = 1 /\ pl.plan.steps[1].step_id[1] = "fallback"

\* C15: for an analysis with query_type comparison that requires multiple
\* searches, the TaskDecomposer of a SearchPlanner as constructed
\* (use_dynamic_generation true) returns three steps: a search with the
\* original query, a search with "<q> 详细对比 优缺点", an analyze step.
C15_ComparisonThreeSteps ==
  (/\ pl.pc = "decomposed" /\ pl.dyn /\ pl.raised = "none"
   /\ pl.analysis.query_type = "comparison"
   /\ pl.analysis.requires_multiple_searches)
  => /\ Len(pl.steps) = 3
     /\ pl.steps[1].step_type = SEARCH /\ pl.steps[1].query = pl.request.query.words
     /\ pl.steps[2].step_type = SEARCH
     /\ pl.steps[2].query = pl.request.query.words \o <<"detailed-compare", "pros-cons">>
     /\ pl.steps[3].step_type = ANALYZE

\* C16: decompose_task never returns an empty list, also when the
\* normalisation of the analysis raises; for an analysis that does not
\* require multiple searches it returns one search step with the request's
\* query.
C16_DecomposeNonEmpty ==
  pl.pc = "decomposed" =>
    /\ pl.steps # <<>>
    /\ ~pl.analysis.requires_multiple_searches =>
         /\ Len(pl.steps) = 1
         /\ pl.steps[1].step_type = SEARCH
         /\ pl.steps[1].query = pl.request.query.words

\* the dynamic generator produced nothing and the default step was created
C16_Witness ==
  /\ pl.pc = "decomposed" /\ pl.dyn /\ pl.raised = "none"
  /\ ~pl.analysis.requires_multiple_searches
  /\ pl.request.query = QDefine
  /\ Len(pl.steps) = 1 /\ pl.steps[1].query = QDefine.words

\* C17: create_execution_plan always returns a plan; when the exception of a
\* sub-stage reached its except clause the plan is the fallback plan:
\* strategy simple, one search step with the original query, confidence 0.5.
C17_FallbackPlan ==
  pl.pc = "planned" =>
    /\ pl.plan # NoPlan
    /\ pl.raised # "none" =>
         /\ pl.plan.strategy = SIMPLE
         /\ Len(pl.plan.steps) = 1
         /\ pl.plan.steps[1].step_type = SEARCH
         /\ pl.plan.steps[1].query = pl.request.query.words
         /\ pl.plan.confidence_score = 500

\* the confidence computation divided by zero for a request that asked for
\* the iterative strategy
C17_Witness ==
  /\ pl.pc = "planned" /\ pl.raised = "confidence"
  /\ pl.request.planning_strategy = ITERATIVE
  /\ pl.plan.strategy = SIMPLE /\ pl.plan.confidence_score = 500

\* C18: generate_strategy returns the request's planning_strategy when that
\* is simple, iterative or parallel, whatever the analysis; it never returns
\* adaptive.
C18_StrategyChoice ==
  pl.pc = "strategized" =>
    /\ pl.request.planning_strategy # ADAPTIVE => pl.strategy = pl.request.planning_strategy
    /\ pl.strategy # ADAPTIVE

\* an adaptive request for which the scores select the iterative strategy
C18_Witness ==
  /\ pl.pc = "strategized"
  /\ pl.request.planning_strategy = ADAPTIVE
  /\ pl.analysis.query_type = "comparison"
  /\ pl.strategy = ITERATIVE

\* C21: create_state gives the new ExecutionState a session id that no state
\* created before holds or has held (also when that state was cleaned up),
\* and it leaves every entry already in the session map in place.
C21_FreshSessionId ==
  [][\A k \in DOMAIN st' \ DOMAIN st :
       /\ \A j \in DOMAIN st : st[j].session_id # st'[k].session_id
       /\ \A id \in DOMAIN states :
            id \in DOMAIN states' /\ states'[id] = states[id]]_vars

\* the number of plan steps that execute_step has run to their end
ExecutedSteps(p) ==
  Cardinality({i \in DOMAIN p.steps : p.steps[i].status \in {COMPLETED, FAILED}})

\* C22: plan.current_step_index is always between 0 and len(plan.steps); it
\* is changed only by the tail of the loop body of execute_plan, which raises
\* it to the number of steps run so far.
C22_StepCursor ==
  /\ [](\A r \in DOMAIN plan :
          /\ plan[r].current_step_index \in 0..Len(plan[r].steps)
          /\ pc[r] = "loop" => plan[r].current_step_index = ExecutedSteps(plan[r]))
  /\ [][\A r \in DOMAIN plan :
          plan'[r].current_step_index # plan[r].current_step_index =>
            /\ PostStep(r)
            /\ plan'[r].current_step_index > plan[r].current_step_index
            /\ plan'[r].current_step_index = ExecutedSteps(plan'[r])]_vars

\* the loop stopped after three of four steps, one of which failed
C22_Witness ==
  \E r \in DOMAIN plan :
    /\ pc[r] = "finalize" /\ Len(plan[r].steps) = 4
    /\ plan[r].current_step_index = 3
    /\ plan[r].steps[2].status = FAILED /\ plan[r].steps[4].status = PENDING

\* the step the loop body last ran for r was unsuccessful and is not the
\* last step of the plan: should_refine_query was asked about it
RefinementAsked(p, i) ==
  /\ i \in 1..(Len(p.steps) - 1)
  /\ ~evaluate_step_success(p.steps[i]).success

\* C29: the refinement decision taken after an unsuccessful step is
\* informational only: whatever should_refine_query returns, the tail of the
\* loop body leaves the plan's step list and the execution state as they
\* were; only plan.current_step_index moves.
C29_RefinementInformational ==
  [][\A r \in DOMAIN plan :
       (pc[r] = "post_step" /\ pc'[r] = "loop"
        /\ RefinementAsked(plan[r], idx[r] + 1)) =>
         /\ plan'[r].steps = plan[r].steps
         /\ plan'[r] = [plan[r] EXCEPT !.current_step_index = idx[r] + 1]
         /\ st' = st /\ states' = states /\ req' = req]_vars

\* the loop went on to a pending step after an unsuccessful step for which
\* should_refine_query returned true
C29_Witness ==
  \E r \in DOMAIN plan :
    /\ pc[r] = "loop" /\ RefinementAsked(plan[r], idx[r])
    /\ should_refine_query(plan[r].steps[idx[r]], req[r])[1]
    /\ plan[r].current_step_index = idx[r]
    /\ plan[r].steps[idx[r] + 1].status = PENDING

\* C30: the loop starts no plan step while len(state.all_results) >=
\* request.total_max_results: a should_continue_execution check made with
\* that many results returns false, the loop ends without touching the plan,
\* and no step leaves PENDING while the bound is reached.
C30_SufficientResultsStop ==
  [][\A r \in DOMAIN plan :
       /\ (\E i \in DOMAIN plan[r].steps :
              /\ plan[r].steps[i].status = PENDING
              /\ plan'[r].steps[i].status # PENDING)
            => Len(st[r].all_results) < req[r].total_max_results
       /\ (/\ pc[r] = "loop" /\ pc'[r] # "loop"
           /\ Len(st[r].all_results) >= req[r].total_max_results)
            => /\ pc'[r] = "finalize"
               /\ plan'[r] = plan[r]
               /\ idx[r] < Len(plan[r].steps) =>
                    ~should_continue_execution(st[r], plan[r], req[r], now)[1]]_vars

\* the loop stopped on sufficient results with exactly total_max_results
\* results and a step still pending
C30_Witness ==
  \E r \in DOMAIN plan :
    /\ pc[r] = "finalize" /\ stopReason[r] = ReasonSufficient
    /\ Len(st[r].all_results) = req[r].total_max_results
    /\ idx[r] < Len(plan[r].steps)
    /\ \A i \in (idx[r] + 1)..Len(plan[r].steps) : plan[r].steps[i].status = PENDING

\* the positions of execute_plan inside _finalize_execution
FinalizePcs == {"finalize", "fin_step", "fin_io", "fin_tail"}

\* C31: finalization runs one synthesized summarize step exactly when
\* state.final_summary is empty and state.all_results is non-empty, and none
\* otherwise; the step is entered once, from the test only, and the plan
\* (its step list and its cursor) is not changed during finalization.
C31_FinalSummarizeStep ==
  [][\A r \in DOMAIN plan :
       /\ (pc[r] = "finalize" /\ pc'[r] # "finalize") =>
            /\ pc'[r] \in {"fin_step", "fin_tail"}
            /\ pc'[r] = "fin_step" <=>
                 (st[r].final_summary = "" /\ st[r].all_results # <<>>)
       /\ (pc'[r] = "fin_step" /\ pc[r] # "fin_step") => pc[r] = "finalize"
       /\ (pc[r] \in FinalizePcs \ {"finalize"} /\ pc'[r] # pc[r]) =>
            pc'[r] \in {"fin_io", "fin_tail", "returned"}
       /\ pc[r] \in FinalizePcs =>
            /\ r \in DOMAIN plan'
            /\ plan'[r] = plan[r]]_vars

\* the synthesized step awaits the LLM after a loop that left no summary,
\* with the plan as the loop left it
C31_Witness ==
  \E r \in DOMAIN plan :
    /\ pc[r] = "fin_io"
    /\ st[r].final_summary = "" /\ st[r].all_results # <<>>
    /\ Len(plan[r].steps) = 3 /\ plan[r].current_step_index = 3

\* the share of the query's tokens found in the result's title and snippet,
\* as the pair <<numerator, denominator>>
TokenOverlap(res) == <<Cardinality(QueryWords \cap res.words), Cardinality(QueryWords)>>

\* the result passes the request's threshold (tenths)
Relevant(res, rq) ==
  TokenOverlap(res)[1] * 10 >= rq.confidence_threshold * TokenOverlap(res)[2]

\* C32: a validate step replaces state.all_results by the sub-list, in the
\* same order, of the previous state.all_results whose token-overlap relevance
\* is >= request.confidence_threshold, and the step's own results are that
\* list.
C32_ValidateFilters ==
  [][\A r \in DOMAIN plan :
       (pc[r] = "step_run" /\ pc'[r] # "step_run"
        /\ CurStep(r).step_type = VALIDATE) =>
         LET before == st[r].all_results
             after == st'[r].all_results
         IN /\ IsSubseq(after, before)
            /\ \A i \in DOMAIN after : Relevant(after[i], req[r])
            /\ Len(after) = Cardinality({i \in DOMAIN before : Relevant(before[i], req[r])})
            /\ plan'[r].steps[idx[r] + 1].results = after
            /\ plan'[r].steps[idx[r] + 1].status = COMPLETED]_vars

\* a validate step kept a result whose relevance equals the threshold
C32_Witness ==
  \E r \in DOMAIN plan :
    /\ pc[r] = "post_step" /\ CurStep(r).step_type = VALIDATE
    /\ CurStep(r).results = st[r].all_results
    /\ \E i \in DOMAIN st[r].all_results :
         TokenOverlap(st[r].all_results[i])[1] * 10
           = req[r].confidence_threshold * TokenOverlap(st[r].all_results[i])[2]

\* the result counters of an ExecutionState
ResultCounters(s) ==
  <<s.all_results, s.total_searches, s.total_results_found, s.cache_hits>>

\* C33: an analyze step and a summarize step produce no new results: from
\* step.start() to the end of the step, state.all_results, total_searches,
\* total_results_found and cache_hits stay as they were, and the step ends
\* completed with an empty result list.
C33_NoNewResults ==
  [][\A r \in DOMAIN plan :
       (pc[r] \in {"step_start", "step_run", "step_io"}
        /\ CurStep(r).step_type \in {ANALYZE, SUMMARIZE}) =>
         /\ ResultCounters(st'[r]) = ResultCounters(st[r])
         /\ pc'[r] = "post_step" =>
              /\ plan'[r].steps[idx[r] + 1].results = <<>>
              /\ plan'[r].steps[idx[r] + 1].status = COMPLETED]_vars

\* an analyze or summarize step ended after a search served from the cache,
\* with the state's results in place
C33_Witness ==
  \E r \in DOMAIN plan :
    /\ pc[r] = "post_step" /\ CurStep(r).step_type \in {ANALYZE, SUMMARIZE}
    /\ CurStep(r).status = COMPLETED /\ CurStep(r).results = <<>>
    /\ st[r].all_results # <<>> /\ st[r].cache_hits > 0

\* C34: a refine step with prior results searches with its original query
\* followed by at most 2 keywords, each longer than 2 characters and
\* alphabetic, taken from the first 5 prior results, and none of them already
\* in the original query (the steps of a plan carry the request's query);
\* without prior results the query is unchanged.
C34_RefinedQuery ==
  [][\A r \in DOMAIN plan :
       (pc[r] = "step_run" /\ pc'[r] = "step_io"
        /\ CurStep(r).step_type = REFINE) =>
         LET kws == plan'[r].steps[idx[r] + 1].refined
             prior == Take(st[r].all_results, 5)
         IN IF st[r].all_results = <<>> THEN kws = <<>>
            ELSE /\ Len(kws) <= 2
                 /\ \A i \in DOMAIN kws :
                      /\ IsKeyword(kws[i])
                      /\ \E j \in DOMAIN prior : kws[i] \in prior[j].words
                      /\ kws[i] \notin QueryWords]_vars

\* the positions of the steps that no earlier step of the list equals in
\* normalized query
FirstOfQuery(steps) ==
  {i \in DOMAIN steps : \A j \in 1..(i - 1) : query_key(steps[j]) # query_key(steps[i])}

\* C35: after the step de-duplication of optimize_plan no two remaining
\* steps have the same normalized query text; of each group of steps with
\* equal normalized query only the earliest is kept, and the kept steps keep
\* their relative order.
C35_DeduplicateSteps ==
  fn.method = "_deduplicate_steps" =>
    /\ \A i, j \in DOMAIN fn.value :
         i # j => query_key(fn.value[i]) # query_key(fn.value[j])
    /\ fn.value = SelectIdx(fn.arg, FirstOfQuery(fn.arg))

\* of three steps whose queries differ in case only, or not at all, the
\* first one alone was kept, ahead of a step with another query
C35_Witness ==
  /\ fn.method = "_deduplicate_steps"
  /\ Len(fn.arg) = 3 /\ Len(fn.value) = 2
  /\ fn.arg[1].query # fn.arg[2].query
  /\ query_key(fn.arg[1]) = query_key(fn.arg[2])
  /\ fn.value = <<fn.arg[1], fn.arg[3]>>

\* the plan steps of a run with the given status
StepsWith(r, status) ==
  Cardinality({i \in DOMAIN plan[r].steps : plan[r].steps[i].status = status})

\* C36: in a run of execute_plan with request.max_iterations >= 0 the number
\* of completed plan steps never exceeds request.max_iterations; failed steps
\* are not counted: the loop starts a step only below the limit and stops for
\* the limit only when that many steps are completed.
C36_CompletedWithinLimit ==
  /\ [](\A r \in DOMAIN plan :
          req[r].max_iterations >= 0 =>
            StepsWith(r, COMPLETED) <= req[r].max_iterations)
  /\ [][\A r \in DOMAIN plan :
          (pc[r] = "loop" /\ pc'[r] # "loop") =>
            /\ pc'[r] = "step_start" =>
                 StepsWith(r, COMPLETED) < req[r].max_iterations
            /\ stopReason'[r] = ReasonMaxIterations =>
                 StepsWith(r, COMPLETED) = req[r].max_iterations]_vars

\* a run ended with max_iterations completed steps after running more steps
\* than that, the others failed
C36_Witness ==
  \E r \in DOMAIN plan :
    /\ pc[r] = "finalize"
    /\ StepsWith(r, COMPLETED) = req[r].max_iterations
    /\ StepsWith(r, FAILED) > 0
    /\ stopReason[r] = ReasonMaxIterations

\* the search-collaborator calls of a run that returned: a search or refine
\* step makes one call and completes exactly when the call returns
SearchCallsReturned(r) ==
  Cardinality({i \in DOMAIN plan[r].steps :
                 /\ plan[r].steps[i].step_type \in {SEARCH, REFINE}
                 /\ plan[r].steps[i].status = COMPLETED})

\* C37: in every reachable state of a run cache_hits <= total_searches,
\* total_searches is the number of search-collaborator calls of the session
\* that returned without raising, and total_results_found >=
\* len(state.all_results).
C37_Counters ==
  \A r \in DOMAIN st :
    /\ st[r].cache_hits <= st[r].total_searches
    /\ r \in DOMAIN plan => st[r].total_searches = SearchCallsReturned(r)
    /\ st[r].total_results_found >= Len(st[r].all_results)

\* after a search served from the cache, a second search that returned and
\* one that raised, with results dropped from the state since
C37_Witness ==
  \E r \in DOMAIN st :
    /\ r \in DOMAIN plan
    /\ st[r].cache_hits = 1 /\ st[r].total_searches = 2
    /\ st[r].total_results_found > Len(st[r].all_results)
    /\ \E i \in DOMAIN plan[r].steps : plan[r].steps[i].status = FAILED

\* the positions of a call inside execute_plan
ExecutePlanPcs ==
  {"create_state", "set_running"} \cup LoopPcs \cup FinalizePcs

\* C38: provided every search and LLM collaborator call returns or raises,
\* execute_plan terminates for every plan, runs each plan step at most once
\* (a step is started from pending only and never becomes pending again),
\* and the state it returns is neither pending nor running.
C38_Terminates ==
  /\ \A r \in Runs : (pc[r] \in ExecutePlanPcs) ~> (pc[r] = "returned")
  /\ [][\A r \in DOMAIN plan : \A i \in DOMAIN plan[r].steps :
          /\ r \in DOMAIN plan' /\ i \in DOMAIN plan'[r].steps
          /\ (plan[r].steps[i].status # RUNNING /\ plan'[r].steps[i].status = RUNNING)
               => plan[r].steps[i].status = PENDING
          /\ plan[r].steps[i].status # PENDING => plan'[r].steps[i].status # PENDING]_vars
  /\ [](\A r \in DOMAIN st :
          pc[r] = "returned" => st[r].status \notin {PENDING, RUNNING})

\* execute_plan returned after running every step of a four-step plan
C38_Witness ==
  \E r \in DOMAIN st :
    /\ pc[r] = "returned" /\ Len(plan[r].steps) = 4
    /\ \A i \in DOMAIN plan[r].steps : plan[r].steps[i].status \in {COMPLETED, FAILED}
    /\ st[r].status \in {COMPLETED, FAILED, CANCELLED}

\* C39: for two searches running concurrently on one SearchAgent, under any
\* interleaving at their await points, each run has its own entry in the
\* session map, and a step of one run changes only that run's ExecutionState
\* and plan.
C39_RunsIsolated ==
  /\ [](\A r \in DOMAIN st : \E id \in DOMAIN states : states[id] = r)
  /\ [][\A r \in DOMAIN pc :
          pc'[r] # pc[r] =>
            \A o \in DOMAIN pc \ {r} :
              /\ o \in DOMAIN plan => (o \in DOMAIN plan' /\ plan'[o] = plan[o])
              /\ o \in DOMAIN st => (o \in DOMAIN st' /\ st'[o] = st[o])]_vars

\* one result is a duplicate of the other under the method's key
Duplicate(method, a, b) ==
  IF method = "url" THEN a.url = b.url
  ELSE IF method = "title" THEN title_normalized(a.title) = title_normalized(b.title)
  ELSE similarity_above_threshold(a.text, b.text)

\* C23: deduplicate_results by url, title or content keeps an element exactly
\* when no earlier kept element has the same key (or a similarity above 0.8),
\* keeps the kept elements in their input order, and applied to its own
\* output it returns that output.
C23_Deduplicate ==
  /\ []((fn.method = "deduplicate_results" /\ fn.arg \in {"url", "title", "content"}) =>
          \E K \in SUBSET DOMAIN fn.prev :
            /\ fn.results = SelectIdx(fn.prev, K)
            /\ \A i \in DOMAIN fn.prev :
                 i \in K <=> ~\E j \in K : j < i /\ Duplicate(fn.arg, fn.prev[j], fn.prev[i]))
  /\ [][(/\ fn.method = "deduplicate_results" /\ fn'.method = "deduplicate_results"
         /\ fn.arg \in {"url", "title", "content"} /\ fn'.arg = fn.arg)
        => fn'.results = fn.results]_vars

\* the third result is close to the dropped second one but not to the kept
\* first one: it is kept
C23_Witness ==
  /\ fn.method = "deduplicate_results" /\ fn.arg = "content"
  /\ fn.prev = <<ToolA, ToolB, ToolC>>
  /\ fn.results = <<ToolA, ToolC>>

\* C24: rank_results with the hybrid method returns the input results in
\* non-increasing hybrid score, results of equal score in their input order;
\* ranking the output again with the same query returns the same order.
C24_RankHybrid ==
  /\ []((fn.method = "rank_results" /\ fn.arg = "hybrid") =>
          /\ Len(fn.results) = Len(fn.prev)
          /\ \E pi \in Permutations(DOMAIN fn.prev) :
               /\ \A i \in DOMAIN fn.prev : fn.results[i] = fn.prev[pi[i]]
               /\ \A i, j \in DOMAIN fn.prev :
                    i < j =>
                      /\ hybrid_score(fn.results[i]) >= hybrid_score(fn.results[j])
                      /\ hybrid_score(fn.results[i]) = hybrid_score(fn.results[j])
                           => pi[i] < pi[j])
  /\ [][(/\ fn.method = "rank_results" /\ fn'.method = "rank_results"
         /\ fn.arg = "hybrid" /\ fn'.arg = "hybrid")
        => fn'.results = fn.results]_vars

\* the last result has the highest hybrid score and the first two are equal:
\* it moves to the front and the two keep their order
C24_Witness ==
  /\ fn.method = "rank_results" /\ fn.arg = "hybrid"
  /\ fn.prev = <<ToolB, ToolA, ToolC>>
  /\ fn.results = <<ToolC, ToolB, ToolA>>
  /\ hybrid_score(ToolA) = hybrid_score(ToolB)

\* what C25 compares of a step list: type, query text, sources, max-results
StepShapes(steps) ==
  [i \in DOMAIN steps |->
     <<steps[i].step_type, steps[i].query, steps[i].sources, steps[i].max_results>>]

\* C25: optimize_plan is idempotent: optimizing an optimized plan returns the
\* same sequence of steps (count, types, query texts, sources, max-results).
C25_OptimizeIdempotent ==
  [][(pl.pc = "optimized" /\ pl'.pc = "reoptimized")
       => StepShapes(pl'.plan.steps) = StepShapes(pl.plan.steps)]_vars

\* C26: an analyze or summarize step ends completed and adds nothing to
\* state.errors, whether the LLM is missing, unavailable or raises; the loop
\* goes on to its next iteration.
C26_LlmDegrades ==
  /\ [](\A r \in DOMAIN plan : \A i \in DOMAIN plan[r].steps :
          plan[r].steps[i].step_type \in {ANALYZE, SUMMARIZE} => plan[r].steps[i].status # FAILED)
  /\ [][\A r \in DOMAIN plan :
          (/\ pc[r] \in {"step_run", "step_io"} /\ pc'[r] # pc[r]
           /\ CurStep(r).step_type \in {ANALYZE, SUMMARIZE})
          => \/ pc[r] = "step_run" /\ pc'[r] = "step_io" /\ llm /\ plan' = plan /\ st' = st
             \/ /\ pc'[r] = "post_step"
                /\ plan'[r].steps[idx[r] + 1].status = COMPLETED
                /\ st'[r].errors = st[r].errors]_vars

\* the LLM raised in the summarize step in the middle of a plan; the step is
\* completed, no error is recorded and the next step has been run
C26_Witness ==
  \E r \in DOMAIN st :
    /\ Len(plan[r].steps) = 3 /\ plan[r].steps[2].step_type = SUMMARIZE
    /\ plan[r].steps[2].status = COMPLETED /\ plan[r].steps[2].summary = "llm failed"
    /\ plan[r].steps[3].status = COMPLETED
    /\ st[r].errors = <<>>

\* C27: every confidence score the engine assigns is in [0.0, 1.0]: the
\* confidence_score of a completed step, of a plan, and the relevance_score
\* and confidence_score of an AgentResult.
C27_ScoresInUnitInterval ==
  fn.method \in {"calculate_step_confidence", "calculate_plan_confidence",
                 "calculate_relevance_score", "calculate_confidence_score"}
    => (fn.scale > 0 /\ 0 <= fn.value /\ fn.value <= fn.scale)

\* a simple query analysed by the advanced analyzer's fallback and planned as
\* one step: 0.8 + 0.15 + 0.1 is cut to 1.0
C27_Witness ==
  /\ fn.method = "calculate_plan_confidence"
  /\ fn.arg = <<"advanced", "simple", "none", 1, "none">>
  /\ fn.value = 1000

\* the score C28 describes for a completed step, in units of 1/2000:
\* min(resultCount / 5, 1.0), averaged with confidence_score when nonzero
ClaimedScore(step) ==
  LET by_count == Min(Len(step.results) * 200, 1000)
  IN IF step.confidence_score > 0 THEN by_count + step.confidence_score * 10
     ELSE 2 * by_count

\* C28 as stated: evaluate_step_success returns failure with score 0 for a
\* failed step; for every completed step the score is min(resultCount/5, 1.0)
\* averaged with a nonzero confidence_score, and success is true exactly when
\* the score is at least 0.4.
C28_EvaluateStepSuccess ==
  fn.method = "evaluate_step_success" =>
    /\ fn.arg.status = FAILED => (~fn.value.success /\ fn.value.score = 0)
    /\ fn.arg.status = COMPLETED =>
         /\ fn.value.score = ClaimedScore(fn.arg)
         /\ fn.value.success <=> ClaimedScore(fn.arg) >= 800

\* C28 amended: as stated for a completed step with at least one result; a
\* completed step without results is a failure with score 0.
C28_EvaluateStepSuccessAmended ==
  fn.method = "evaluate_step_success" =>
    /\ fn.arg.status = FAILED => (~fn.value.success /\ fn.value.score = 0)
    /\ (fn.arg.status = COMPLETED /\ Len(fn.arg.results) > 0) =>
         /\ fn.value.score = ClaimedScore(fn.arg)
         /\ fn.value.success <=> ClaimedScore(fn.arg) >= 800
    /\ (fn.arg.status = COMPLETED /\ Len(fn.arg.results) = 0) =>
         (~fn.value.success /\ fn.value.score = 0)

\* one result and confidence 0.6 average to 0.4: a partial success
C28_Witness ==
  /\ fn.method = "evaluate_step_success"
  /\ fn.arg.status = COMPLETED /\ Len(fn.arg.results) = 1 /\ fn.arg.confidence_score = 60
  /\ fn.value.success /\ fn.value.score = 800

TypeOK ==
  /\ pc \in [Runs -> {"idle", "planning", "create_state", "set_running", "loop",
                      "step_start", "step_run", "step_io", "post_step", "finalize", "fin_step", "fin_io",
                      "fin_tail", "returned", "quality_io", "build", "cleanup",
                      "cleanup_sleep", "done"}]
  /\ now \in 0..MaxTime
  /\ \A r \in DOMAIN st : st[r].status \in ExecutionStatus
  /\ \A id \in DOMAIN states : states[id] \in DOMAIN st

====
